---- MODULE Spec2Model ----
(***************************************************************************)
(* Model of the cricket shot outcome engine (src/engine/game_engine.py).   *)
(*                                                                         *)
(* simulate_delivery is modelled as a state machine that walks through the *)
(* phases of one call: sanitize, six, catches, four, ground fielding and   *)
(* the nearest-fielder fallback.  The floating point arithmetic of the     *)
(* engine is modelled in fixed point:                                      *)
(*   lengths      centimetres                                              *)
(*   times        milliseconds                                             *)
(*   speeds       centimetres per second (exit speed: km/h)                *)
(*   angles       whole degrees                                            *)
(*   ratios, trigonometric values, scores      1/10000                     *)
(*   probabilities and uniform draws           1/1000                      *)
(* Divisions round down.  A raw (caller supplied) number is a record       *)
(* [k, v]: k = "fin" for a finite float with value v, "nan", "inf", "ninf" *)
(* for the non-finite floats and "none" for a value that is not a number.  *)
(* Optional values are sequences of length 0 (None) or 1.                  *)
(***************************************************************************)
EXTENDS Integers, Sequences, FiniteSets, TLC

VARIABLES
    args,        \* the ten arguments of the call of simulate_delivery
    rng,         \* the stream of uniform draws of the randomness source
    rng_pos,     \* number of draws consumed so far
    pc,          \* position of the call: start, six, catches, four, ground,
                 \* fallback, done
    ctx,         \* locals of simulate_delivery after sanitization
    result,      \* the returned result (None until the call returns)
    trace,       \* phases evaluated so far, in order (history)
    returned     \* the results of the earlier calls with these arguments

vars == <<args, rng, rng_pos, pc, ctx, result, trace, returned>>

None == << >>
Some(x) == <<x>>

-----------------------------------------------------------------------------
(* Physical constants *)

GRAVITY == 981
BAT_HEIGHT == 100

CATCH_HEIGHT_MIN == 20
CATCH_HEIGHT_MAX == 400
CATCH_OPTIMAL_MIN == 80
CATCH_OPTIMAL_MAX == 160

FIELDER_REACTION_TIME == 200
FIELDER_RUN_SPEED == 700
FIELDER_DIVE_RANGE == 250
FIELDER_STATIC_RANGE == 150
GROUND_FIELDING_RANGE == 300

PITCH_LENGTH == 2012
TIME_FOR_FIRST_RUN == 3500
TIME_FOR_EXTRA_RUN == 2500
THROW_SPEED == 3000
COLLECTION_TIME_DIRECT == 500
COLLECTION_TIME_MOVING == 1000
COLLECTION_TIME_DIVING == 1500
PICKUP_TIME_STOPPED == 400
\* GROUND_FRICTION = 0.03 per metre, held in 1/100 per metre
GROUND_FRICTION == 3
MISFIELD_TIME_PENALTY == 2500
FUMBLE_TIME_PENALTY == 1000

\* weights in 1/100
WEIGHT_REACTION == 25
WEIGHT_MOVEMENT == 35
WEIGHT_HEIGHT == 20
WEIGHT_SPEED == 20

INNER_RING_RADIUS == 1500
MID_FIELD_RADIUS == 3000

AERIAL_HEIGHT_THRESHOLD == 150
AERIAL_ANGLE_THRESHOLD == 10
SIX_HEIGHT_AT_BOUNDARY == 50
MIN_SHOT_LENGTH == 10
TRAJECTORY_TIME_STEP == 50
\* FIELDER_PATH_START_T = 0.05 in 1/10000
FIELDER_PATH_START_T == 500
CATCH_EXTENDED_RANGE == 1000

MAX_EXIT_SPEED == 200
MIN_EXIT_SPEED == 0
MAX_VERTICAL_ANGLE == 90
MIN_VERTICAL_ANGLE == 0
MAX_DISTANCE == 15000
MAX_HEIGHT == 5000

\* ground fielding probabilities by difficulty, in 1/1000
DIFFICULTY_SETTINGS ==
    [easy   |-> [stopped |-> 700, misfield_no_extra |-> 200, misfield_extra |-> 100],
     medium |-> [stopped |-> 850, misfield_no_extra |-> 100, misfield_extra |-> 50],
     hard   |-> [stopped |-> 950, misfield_no_extra |-> 40,  misfield_extra |-> 10]]

\* catch probability modifiers, in 1/100
CATCH_DIFFICULTY_MODIFIER ==
    [easy |-> 85, medium |-> 100, hard |-> 115]

-----------------------------------------------------------------------------
(* Raw numbers *)

Fin(v) == [k |-> "fin", v |-> v]
NaN == [k |-> "nan", v |-> 0]
PosInf == [k |-> "inf", v |-> 0]
NegInf == [k |-> "ninf", v |-> 0]
NotANumber == [k |-> "none", v |-> 0]

-----------------------------------------------------------------------------
(* Arithmetic of the fixed point model *)

Max(a, b) == IF a >= b THEN a ELSE b
Min(a, b) == IF a <= b THEN a ELSE b
Abs(a) == IF a < 0 THEN -a ELSE a

RECURSIVE sqrt_iter(_, _)
sqrt_iter(n, x) ==
    LET y == (x + n \div x) \div 2
    IN  IF y >= x THEN x ELSE sqrt_iter(n, y)

\* math.sqrt, rounded down to a whole unit
sqrt(n) == IF n <= 0 THEN 0 ELSE sqrt_iter(n, Min(n, 46340))

RECURSIVE frac_digits(_, _, _, _)
frac_digits(q, r, den, n) ==
    IF n = 0 THEN q
    ELSE frac_digits(q * 10 + (r * 10) \div den, (r * 10) % den, den, n - 1)

\* the quotient num / den of two floats (den > 0), in 1/10000
ratio(num, den) ==
    IF num >= 0 THEN frac_digits(num \div den, num % den, den, 4)
    ELSE -frac_digits((-num) \div den, (-num) % den, den, 4)

SinTable ==
    <<0, 175, 349, 523, 698, 872, 1045, 1219, 1392, 1564, 1736, 1908, 2079,
      2250, 2419, 2588, 2756, 2924, 3090, 3256, 3420, 3584, 3746, 3907, 4067,
      4226, 4384, 4540, 4695, 4848, 5000, 5150, 5299, 5446, 5592, 5736, 5878,
      6018, 6157, 6293, 6428, 6561, 6691, 6820, 6947, 7071, 7193, 7314, 7431,
      7547, 7660, 7771, 7880, 7986, 8090, 8192, 8290, 8387, 8480, 8572, 8660,
      8746, 8829, 8910, 8988, 9063, 9135, 9205, 9272, 9336, 9397, 9455, 9511,
      9563, 9613, 9659, 9703, 9744, 9781, 9816, 9848, 9877, 9903, 9925, 9945,
      9962, 9976, 9986, 9994, 9998, 10000>>

\* math.sin(math.radians(a)) for a whole number of degrees, in 1/10000
sin_deg(a) ==
    LET m == a % 360
    IN  IF m <= 90 THEN SinTable[m + 1]
        ELSE IF m <= 180 THEN SinTable[180 - m + 1]
        ELSE IF m <= 270 THEN -SinTable[m - 180 + 1]
        ELSE -SinTable[360 - m + 1]

\* math.cos(math.radians(a)), in 1/10000
cos_deg(a) == sin_deg(a + 90)

\* float('inf')
Inf == 2147483647

RECURSIVE exp_series(_, _, _, _)
exp_series(x, term, k, acc) ==
    IF term = 0 \/ k > 24 THEN acc
    ELSE LET next == (term * x) \div (k * 1000)
         IN  exp_series(x, next, k + 1,
                        IF k % 2 = 1 THEN acc - next ELSE acc + next)

\* math.exp(-x) for x >= 0 in 1/1000, result in 1/1000
RECURSIVE exp_neg(_)
exp_neg(x) ==
    IF x > 500
    THEN LET h == exp_neg(x \div 2) IN (h * h) \div 1000
    ELSE Max(0, exp_series(x, 1000, 1, 1000))

-----------------------------------------------------------------------------
(* Input validation *)

\* variant: only the upper limit is applied
clamp_upper_only(value, min_val, max_val) == Min(max_val, value)

clamp(value, min_val, max_val) == Max(min_val, Min(max_val, value))

is_valid_number(value) == value.k = "fin"

\* variant: a boundary inside the inner ring is taken for invalid as well
invalid_boundary_distance_inner_ring(boundary_distance) ==
    ~is_valid_number(boundary_distance) \/ boundary_distance.v <= INNER_RING_RADIUS

\* the boundary distance is replaced by the default: not a finite number, or
\* not positive (line 289)
invalid_boundary_distance(boundary_distance) ==
    ~is_valid_number(boundary_distance) \/ boundary_distance.v <= 0

\* variant: max_height is clamped without a warning
validate_and_sanitize_inputs_silent_clamp(exit_speed, horizontal_angle, vertical_angle, landing_x, landing_y, projected_distance, max_height, boundary_distance) ==
    LET w1 == IF ~is_valid_number(exit_speed) THEN <<"exit_speed">>
              ELSE IF exit_speed.v < MIN_EXIT_SPEED \/ exit_speed.v > MAX_EXIT_SPEED
                   THEN <<"exit_speed">> ELSE << >>
        s1 == IF ~is_valid_number(exit_speed) THEN 0
              ELSE IF exit_speed.v < MIN_EXIT_SPEED \/ exit_speed.v > MAX_EXIT_SPEED
                   THEN clamp(exit_speed.v, MIN_EXIT_SPEED, MAX_EXIT_SPEED)
                   ELSE exit_speed.v
        w2 == IF ~is_valid_number(horizontal_angle) THEN <<"horizontal_angle">>
              ELSE << >>
        s2 == IF ~is_valid_number(horizontal_angle) THEN 0
              ELSE ((horizontal_angle.v + 180) % 360) - 180
        w3 == IF ~is_valid_number(vertical_angle) THEN <<"vertical_angle">>
              ELSE IF vertical_angle.v < MIN_VERTICAL_ANGLE
                      \/ vertical_angle.v > MAX_VERTICAL_ANGLE
                   THEN <<"vertical_angle">> ELSE << >>
        s3 == IF ~is_valid_number(vertical_angle) THEN 0
              ELSE IF vertical_angle.v < MIN_VERTICAL_ANGLE
                      \/ vertical_angle.v > MAX_VERTICAL_ANGLE
                   THEN clamp(vertical_angle.v, MIN_VERTICAL_ANGLE, MAX_VERTICAL_ANGLE)
                   ELSE vertical_angle.v
        w4 == IF ~is_valid_number(landing_x) THEN <<"landing_x">> ELSE << >>
        s4 == IF ~is_valid_number(landing_x) THEN 0 ELSE landing_x.v
        w5 == IF ~is_valid_number(landing_y) THEN <<"landing_y">> ELSE << >>
        s5 == IF ~is_valid_number(landing_y) THEN 0 ELSE landing_y.v
        w6 == IF ~is_valid_number(projected_distance) THEN <<"projected_distance">>
              ELSE IF projected_distance.v < 0 \/ projected_distance.v > MAX_DISTANCE
                   THEN <<"projected_distance">> ELSE << >>
        s6 == IF ~is_valid_number(projected_distance) THEN 0
              ELSE IF projected_distance.v < 0 \/ projected_distance.v > MAX_DISTANCE
                   THEN clamp(projected_distance.v, 0, MAX_DISTANCE)
                   ELSE projected_distance.v
        w7 == IF ~is_valid_number(max_height) THEN <<"max_height">> ELSE << >>
        s7 == IF ~is_valid_number(max_height) THEN 0
              ELSE IF max_height.v < 0 \/ max_height.v > MAX_HEIGHT
                   THEN clamp(max_height.v, 0, MAX_HEIGHT)
                   ELSE max_height.v
        bad8 == invalid_boundary_distance(boundary_distance)
        w8 == IF bad8 THEN <<"boundary_distance">> ELSE << >>
        s8 == IF bad8 THEN 7000 ELSE boundary_distance.v
    IN  [exit_speed |-> s1, horizontal_angle |-> s2, vertical_angle |-> s3,
         landing_x |-> s4, landing_y |-> s5, projected_distance |-> s6,
         max_height |-> s7, boundary_distance |-> s8,
         warnings |-> w1 \o w2 \o w3 \o w4 \o w5 \o w6 \o w7 \o w8]

\* Returns the sanitized values and the list of warnings; a warning is
\* represented by the name of the field it is about.
validate_and_sanitize_inputs(exit_speed, horizontal_angle, vertical_angle, landing_x, landing_y, projected_distance, max_height, boundary_distance) ==
    LET w1 == IF ~is_valid_number(exit_speed) THEN <<"exit_speed">>
              ELSE IF exit_speed.v < MIN_EXIT_SPEED \/ exit_speed.v > MAX_EXIT_SPEED
                   THEN <<"exit_speed">> ELSE << >>
        s1 == IF ~is_valid_number(exit_speed) THEN 0
              ELSE IF exit_speed.v < MIN_EXIT_SPEED \/ exit_speed.v > MAX_EXIT_SPEED
                   THEN clamp(exit_speed.v, MIN_EXIT_SPEED, MAX_EXIT_SPEED)
                   ELSE exit_speed.v
        w2 == IF ~is_valid_number(horizontal_angle) THEN <<"horizontal_angle">>
              ELSE << >>
        s2 == IF ~is_valid_number(horizontal_angle) THEN 0
              ELSE ((horizontal_angle.v + 180) % 360) - 180
        w3 == IF ~is_valid_number(vertical_angle) THEN <<"vertical_angle">>
              ELSE IF vertical_angle.v < MIN_VERTICAL_ANGLE
                      \/ vertical_angle.v > MAX_VERTICAL_ANGLE
                   THEN <<"vertical_angle">> ELSE << >>
        s3 == IF ~is_valid_number(vertical_angle) THEN 0
              ELSE IF vertical_angle.v < MIN_VERTICAL_ANGLE
                      \/ vertical_angle.v > MAX_VERTICAL_ANGLE
                   THEN clamp(vertical_angle.v, MIN_VERTICAL_ANGLE, MAX_VERTICAL_ANGLE)
                   ELSE vertical_angle.v
        w4 == IF ~is_valid_number(landing_x) THEN <<"landing_x">> ELSE << >>
        s4 == IF ~is_valid_number(landing_x) THEN 0 ELSE landing_x.v
        w5 == IF ~is_valid_number(landing_y) THEN <<"landing_y">> ELSE << >>
        s5 == IF ~is_valid_number(landing_y) THEN 0 ELSE landing_y.v
        w6 == IF ~is_valid_number(projected_distance) THEN <<"projected_distance">>
              ELSE IF projected_distance.v < 0 \/ projected_distance.v > MAX_DISTANCE
                   THEN <<"projected_distance">> ELSE << >>
        s6 == IF ~is_valid_number(projected_distance) THEN 0
              ELSE IF projected_distance.v < 0 \/ projected_distance.v > MAX_DISTANCE
                   THEN clamp(projected_distance.v, 0, MAX_DISTANCE)
                   ELSE projected_distance.v
        w7 == IF ~is_valid_number(max_height) THEN <<"max_height">>
              ELSE IF max_height.v < 0 \/ max_height.v > MAX_HEIGHT
                   THEN <<"max_height">> ELSE << >>
        s7 == IF ~is_valid_number(max_height) THEN 0
              ELSE IF max_height.v < 0 \/ max_height.v > MAX_HEIGHT
                   THEN clamp(max_height.v, 0, MAX_HEIGHT)
                   ELSE max_height.v
        bad8 == invalid_boundary_distance(boundary_distance)
        w8 == IF bad8 THEN <<"boundary_distance">> ELSE << >>
        s8 == IF bad8 THEN 7000 ELSE boundary_distance.v
    IN  [exit_speed |-> s1, horizontal_angle |-> s2, vertical_angle |-> s3,
         landing_x |-> s4, landing_y |-> s5, projected_distance |-> s6,
         max_height |-> s7, boundary_distance |-> s8,
         warnings |-> w1 \o w2 \o w3 \o w4 \o w5 \o w6 \o w7 \o w8]

\* A field_config entry is [isdict, x, y, name]: x and y are raw numbers
\* (NotANumber when the key is missing), name is None when the key is missing.
Fielder(x, y, name) == [x |-> x, y |-> y, name |-> name]

RECURSIVE convert_entries(_, _)
convert_entries(field_config, i) ==
    IF i > Len(field_config) THEN << >>
    ELSE LET f == field_config[i]
             name == IF f.name = None THEN "fielder_" \o ToString(i - 1)
                     ELSE f.name[1]
         IN  IF ~f.isdict THEN convert_entries(field_config, i + 1)
             ELSE IF ~is_valid_number(f.x) \/ ~is_valid_number(f.y)
                  THEN convert_entries(field_config, i + 1)
                  ELSE <<Fielder(f.x.v, f.y.v, name)>>
                       \o convert_entries(field_config, i + 1)

convert_field_config(field_config) ==
    IF field_config = << >> THEN << >>
    ELSE convert_entries(field_config, 1)

-----------------------------------------------------------------------------
(* Geometry helpers *)

\* variant: the angle is reduced without the half-turn shift
normalize_angle_unshifted(angle) == angle % 360

normalize_angle(angle) == ((angle + 180) % 360) - 180

distance(x1, y1, x2, y2) ==
    LET dx == x2 - x1
        dy == y2 - y1
    IN  sqrt(dx * dx + dy * dy)

\* Returns [dist, closest_x, closest_y, t], t the clamped parameter in 1/10000
distance_point_to_line_segment(px, py, x1, y1, x2, y2) ==
    LET dx == x2 - x1
        dy == y2 - y1
        length_sq == dx * dx + dy * dy
    IN  IF length_sq < 1
        THEN [dist |-> distance(px, py, x1, y1),
              closest_x |-> x1, closest_y |-> y1, t |-> 0]
        ELSE LET t == ratio((px - x1) * dx + (py - y1) * dy, length_sq)
                 t_clamped == clamp(t, 0, 10000)
                 closest_x == x1 + (t_clamped * dx) \div 10000
                 closest_y == y1 + (t_clamped * dy) \div 10000
             IN  [dist |-> distance(px, py, closest_x, closest_y),
                  closest_x |-> closest_x, closest_y |-> closest_y,
                  t |-> t_clamped]

-----------------------------------------------------------------------------
(* Shot classification *)

\* variant: the angle is classified as given, without normalization
get_shot_direction_name_raw(horizontal_angle, is_aerial) ==
    LET angle == horizontal_angle
        abs_angle == Abs(angle)
        is_offside == angle >= 0
    IN  IF abs_angle <= 15
        THEN (IF is_aerial THEN "lofted straight" ELSE "driven straight")
        ELSE IF abs_angle <= 45
        THEN (IF is_offside
              THEN (IF is_aerial THEN "lofted over cover" ELSE "driven through cover")
              ELSE (IF is_aerial THEN "lofted over midwicket"
                    ELSE "flicked through midwicket"))
        ELSE IF abs_angle <= 75
        THEN (IF is_offside
              THEN (IF is_aerial THEN "cut in the air" ELSE "cut")
              ELSE (IF is_aerial THEN "hooked" ELSE "pulled"))
        ELSE IF abs_angle <= 105
        THEN (IF is_offside
              THEN (IF is_aerial THEN "upper cut" ELSE "square cut")
              ELSE (IF is_aerial THEN "swept in the air" ELSE "swept"))
        ELSE IF abs_angle <= 135
        THEN (IF is_offside
              THEN (IF is_aerial THEN "edged" ELSE "late cut")
              ELSE (IF is_aerial THEN "flicked fine" ELSE "glanced fine"))
        ELSE (IF is_aerial THEN "edged in the air" ELSE "edged behind")

get_shot_direction_name(horizontal_angle, is_aerial) ==
    LET angle == normalize_angle(horizontal_angle)
        abs_angle == Abs(angle)
        is_offside == angle >= 0
    IN  IF abs_angle <= 15
        THEN (IF is_aerial THEN "lofted straight" ELSE "driven straight")
        ELSE IF abs_angle <= 45
        THEN (IF is_offside
              THEN (IF is_aerial THEN "lofted over cover" ELSE "driven through cover")
              ELSE (IF is_aerial THEN "lofted over midwicket"
                    ELSE "flicked through midwicket"))
        ELSE IF abs_angle <= 75
        THEN (IF is_offside
              THEN (IF is_aerial THEN "cut in the air" ELSE "cut")
              ELSE (IF is_aerial THEN "hooked" ELSE "pulled"))
        ELSE IF abs_angle <= 105
        THEN (IF is_offside
              THEN (IF is_aerial THEN "upper cut" ELSE "square cut")
              ELSE (IF is_aerial THEN "swept in the air" ELSE "swept"))
        ELSE IF abs_angle <= 135
        THEN (IF is_offside
              THEN (IF is_aerial THEN "edged" ELSE "late cut")
              ELSE (IF is_aerial THEN "flicked fine" ELSE "glanced fine"))
        ELSE (IF is_aerial THEN "edged in the air" ELSE "edged behind")

-----------------------------------------------------------------------------
(* Trajectory calculations *)

Trajectory(projected_distance, max_height, landing_x, landing_y, time_of_flight, horizontal_speed, vertical_speed, direction_x, direction_y, sin_h, cos_h) ==
    [projected_distance |-> projected_distance, max_height |-> max_height,
     landing_x |-> landing_x, landing_y |-> landing_y,
     time_of_flight |-> time_of_flight,
     horizontal_speed |-> horizontal_speed, vertical_speed |-> vertical_speed,
     direction_x |-> direction_x, direction_y |-> direction_y,
     sin_h |-> sin_h, cos_h |-> cos_h]

\* time to fall from height h: sqrt(2 * h / GRAVITY), in ms
fall_time(h) == sqrt((2 * h * 10000) \div GRAVITY) * 10

calculate_trajectory(speed_kmh, horizontal_angle, vertical_angle) ==
    IF speed_kmh <= 0
    THEN Trajectory(0, BAT_HEIGHT, 0, 0, 0, 0, 0, 0, -10000, 0, 10000)
    ELSE
    LET speed_ms == (speed_kmh * 1000) \div 36
        sin_h == sin_deg(horizontal_angle)
        cos_h == cos_deg(horizontal_angle)
        cos_v == cos_deg(vertical_angle)
        sin_v == sin_deg(vertical_angle)
        v_horizontal == (speed_ms * cos_v) \div 10000
        v_vertical == (speed_ms * sin_v) \div 10000
        apex_height == BAT_HEIGHT + (v_vertical * v_vertical) \div (2 * GRAVITY)
        t_up == (v_vertical * 1000) \div GRAVITY
    IN  IF v_horizontal < 10
        THEN Trajectory(10,
                        IF v_vertical > 0 THEN apex_height ELSE BAT_HEIGHT,
                        0, 0,
                        IF v_vertical > 0 THEN 2 * t_up ELSE fall_time(BAT_HEIGHT),
                        10, v_vertical, 0, -10000, sin_h, cos_h)
        ELSE
        LET t_flight == IF v_vertical > 0 THEN t_up + fall_time(apex_height)
                        ELSE fall_time(BAT_HEIGHT)
            max_height == IF v_vertical > 0 THEN apex_height ELSE BAT_HEIGHT
            dist == (v_horizontal * t_flight) \div 1000
            landing_x == (-dist * sin_h) \div 10000
            landing_y == (dist * cos_h) \div 10000
            dir_mag == sqrt(landing_x * landing_x + landing_y * landing_y)
        IN  Trajectory(dist, max_height, landing_x, landing_y, t_flight,
                       v_horizontal, v_vertical,
                       IF dir_mag > 0 THEN (landing_x * 10000) \div dir_mag ELSE 0,
                       IF dir_mag > 0 THEN (landing_y * 10000) \div dir_mag ELSE -10000,
                       sin_h, cos_h)

\* 0.5 * GRAVITY * time * time, in cm (time in ms)
half_g_t2(time) == (((time * time) \div 100) * GRAVITY) \div 20000

\* Returns [x, y, z]
get_ball_position_at_time(traj, time, landing_x, landing_y) ==
    LET horizontal_dist == (traj.horizontal_speed * time) \div 1000
        actual_dist == distance(landing_x, landing_y, 0, 0)
        dir_x == IF actual_dist > MIN_SHOT_LENGTH
                 THEN (landing_x * 10000) \div actual_dist ELSE traj.direction_x
        dir_y == IF actual_dist > MIN_SHOT_LENGTH
                 THEN (landing_y * 10000) \div actual_dist ELSE traj.direction_y
        z == BAT_HEIGHT + (traj.vertical_speed * time) \div 1000 - half_g_t2(time)
    IN  [x |-> (horizontal_dist * dir_x) \div 10000,
         y |-> (horizontal_dist * dir_y) \div 10000,
         z |-> Max(0, z)]

get_ball_height_at_distance(distance_from_batter, projected_distance, max_height, vertical_angle) ==
    IF projected_distance <= 0 THEN 0
    ELSE IF distance_from_batter >= projected_distance THEN 0
    ELSE IF vertical_angle < 5
    THEN Max(0, (BAT_HEIGHT * (10000 - ratio(distance_from_batter, projected_distance)))
                \div 10000)
    ELSE
    LET apex_fraction == 3000 + (vertical_angle * 2000) \div 90
        apex_distance == (projected_distance * apex_fraction) \div 10000
        remaining == projected_distance - apex_distance
    IN  IF distance_from_batter <= apex_distance
        THEN LET t == ratio(distance_from_batter, apex_distance)
             IN  Max(0, BAT_HEIGHT
                        + ((max_height - BAT_HEIGHT) * (2 * t - (t * t) \div 10000))
                          \div 10000)
        ELSE IF remaining <= 0 THEN 0
        ELSE LET t == ratio(distance_from_batter - apex_distance, remaining)
             IN  Max(0, (max_height * (10000 - (t * t) \div 10000)) \div 10000)

-----------------------------------------------------------------------------
(* Fielder path analysis *)

is_fielder_in_ball_path(fielder, landing_x, landing_y) ==
    LET shot_length == distance(landing_x, landing_y, 0, 0)
    IN  IF shot_length < MIN_SHOT_LENGTH THEN FALSE
        ELSE
        LET shot_dir_x == (landing_x * 10000) \div shot_length
            shot_dir_y == (landing_y * 10000) \div shot_length
            dot == fielder.x * shot_dir_x + fielder.y * shot_dir_y
            fielder_distance == distance(fielder.x, fielder.y, 0, 0)
        IN  IF fielder_distance < 1000 THEN dot > -500 * 10000
            ELSE dot > 0

\* Returns [x, y]
get_boundary_intersection(landing_x, landing_y, boundary_distance) ==
    LET dist == distance(landing_x, landing_y, 0, 0)
    IN  IF dist < MIN_SHOT_LENGTH THEN [x |-> 0, y |-> -boundary_distance]
        ELSE LET scale == ratio(boundary_distance, dist)
             IN  [x |-> (landing_x * scale) \div 10000,
                  y |-> (landing_y * scale) \div 10000]

-----------------------------------------------------------------------------
(* Catch analysis *)

Intercept(time, lateral_distance, height, had_optimal) ==
    [time |-> time, lateral_distance |-> lateral_distance,
     height |-> height, had_optimal |-> had_optimal]

\* The ball and the fielder at the sample at time t (lines 693-711 and the
\* height distance of lines 721-726).  p holds the values that are fixed
\* during the loop.
sample_at(p, t) ==
    LET h_dist == (p.h_speed * t) \div 1000
        x == (h_dist * p.dir_x) \div 10000
        y == (h_dist * p.dir_y) \div 10000
        raw_z == BAT_HEIGHT + (p.v_speed * t) \div 1000 - half_g_t2(t)
        scaled(raw) ==
            IF p.height_scale_num # p.height_scale_den
            THEN BAT_HEIGHT
                 + ((raw - BAT_HEIGHT) * p.height_scale_num) \div p.height_scale_den
            ELSE raw
        movement_time == Max(0, t - FIELDER_REACTION_TIME)
        sample(z, lateral_dist, movement_possible) ==
            [t |-> t, z |-> z, lateral_dist |-> lateral_dist,
             catchable |-> /\ CATCH_HEIGHT_MIN <= z /\ z <= CATCH_HEIGHT_MAX
                           /\ lateral_dist <= movement_possible,
             margin |-> movement_possible - lateral_dist,
             is_optimal |-> CATCH_OPTIMAL_MIN <= z /\ z <= CATCH_OPTIMAL_MAX,
             height_dist |-> IF z < CATCH_OPTIMAL_MIN THEN CATCH_OPTIMAL_MIN - z
                             ELSE IF z > CATCH_OPTIMAL_MAX THEN z - CATCH_OPTIMAL_MAX
                             ELSE 0]
    IN  sample(scaled(raw_z), distance(p.fx, p.fy, x, y),
               (movement_time * FIELDER_RUN_SPEED) \div 1000 + FIELDER_DIVE_RANGE)

\* The sampling loop of _find_catchable_intercept; best_optimal and best_any
\* are None or a sample.
RECURSIVE intercept_loop(_, _, _, _, _, _)
\* variant: the first sample in the optimal band is kept
intercept_loop_first_optimal(p, t, best_optimal, best_optimal_margin, best_any, best_any_height_dist) ==
    IF ~(t < p.flight_time)
    THEN IF best_optimal # None
         THEN Intercept(best_optimal[1].t, best_optimal[1].lateral_dist,
                        best_optimal[1].z, TRUE)
         ELSE IF best_any # None
         THEN Intercept(best_any[1].t, best_any[1].lateral_dist,
                        best_any[1].z, FALSE)
         ELSE Intercept(Inf, Inf, 0, FALSE)
    ELSE
    LET step(s) ==
            LET sample == Some([t |-> t, lateral_dist |-> s.lateral_dist, z |-> s.z])
                take_optimal == s.catchable /\ s.is_optimal /\ best_optimal = None
                take_any == s.catchable /\ s.height_dist < best_any_height_dist
            IN  IF take_optimal /\ take_any
                THEN intercept_loop(p, t + TRAJECTORY_TIME_STEP, sample, s.margin,
                                    sample, s.height_dist)
                ELSE IF take_optimal
                THEN intercept_loop(p, t + TRAJECTORY_TIME_STEP, sample, s.margin,
                                    best_any, best_any_height_dist)
                ELSE IF take_any
                THEN intercept_loop(p, t + TRAJECTORY_TIME_STEP, best_optimal,
                                    best_optimal_margin, sample, s.height_dist)
                ELSE intercept_loop(p, t + TRAJECTORY_TIME_STEP, best_optimal,
                                    best_optimal_margin, best_any, best_any_height_dist)
    IN  step(sample_at(p, t))

intercept_loop(p, t, best_optimal, best_optimal_margin, best_any, best_any_height_dist) ==
    IF ~(t < p.flight_time)
    THEN IF best_optimal # None
         THEN Intercept(best_optimal[1].t, best_optimal[1].lateral_dist,
                        best_optimal[1].z, TRUE)
         ELSE IF best_any # None
         THEN Intercept(best_any[1].t, best_any[1].lateral_dist,
                        best_any[1].z, FALSE)
         ELSE Intercept(Inf, Inf, 0, FALSE)
    ELSE
    LET step(s) ==
            LET sample == Some([t |-> t, lateral_dist |-> s.lateral_dist, z |-> s.z])
                take_optimal == s.catchable /\ s.is_optimal /\ s.margin > best_optimal_margin
                take_any == s.catchable /\ s.height_dist < best_any_height_dist
            IN  IF take_optimal /\ take_any
                THEN intercept_loop(p, t + TRAJECTORY_TIME_STEP, sample, s.margin,
                                    sample, s.height_dist)
                ELSE IF take_optimal
                THEN intercept_loop(p, t + TRAJECTORY_TIME_STEP, sample, s.margin,
                                    best_any, best_any_height_dist)
                ELSE IF take_any
                THEN intercept_loop(p, t + TRAJECTORY_TIME_STEP, best_optimal,
                                    best_optimal_margin, sample, s.height_dist)
                ELSE intercept_loop(p, t + TRAJECTORY_TIME_STEP, best_optimal,
                                    best_optimal_margin, best_any, best_any_height_dist)
    IN  step(sample_at(p, t))

\* The values that _find_catchable_intercept fixes before its loop (lines
\* 660-686).  max_height is always passed by the caller
\* (_analyze_catch_difficulty); height_scale is held as the fraction
\* height_scale_num / height_scale_den.
intercept_params(fielder, traj, landing_x, landing_y, projected_distance, max_height) ==
    LET actual_dist == distance(landing_x, landing_y, 0, 0)
        dir_x == IF actual_dist > MIN_SHOT_LENGTH
                 THEN (landing_x * 10000) \div actual_dist ELSE traj.direction_x
        dir_y == IF actual_dist > MIN_SHOT_LENGTH
                 THEN (landing_y * 10000) \div actual_dist ELSE traj.direction_y
        actual_flight_time ==
            IF traj.horizontal_speed > 0
            THEN (projected_distance * 1000) \div traj.horizontal_speed
            ELSE traj.time_of_flight
        scaled == traj.max_height > BAT_HEIGHT
    IN  [h_speed |-> traj.horizontal_speed,
         v_speed |-> traj.vertical_speed,
         flight_time |-> actual_flight_time,
         fx |-> fielder.x, fy |-> fielder.y,
         dir_x |-> dir_x, dir_y |-> dir_y,
         height_scale_num |-> IF scaled THEN max_height - BAT_HEIGHT ELSE 1,
         height_scale_den |-> IF scaled THEN traj.max_height - BAT_HEIGHT ELSE 1]

find_catchable_intercept(fielder, traj, landing_x, landing_y, projected_distance, max_height) ==
    IF traj.time_of_flight <= 0 THEN Intercept(Inf, Inf, 0, FALSE)
    ELSE intercept_loop(intercept_params(fielder, traj, landing_x, landing_y,
                                         projected_distance, max_height),
                        100, None, -1, None, Inf)

CatchAnalysis(can_catch, difficulty, catch_type, reaction_time, movement_required, movement_possible, ball_speed_at_fielder, height_at_intercept, time_to_intercept) ==
    [can_catch |-> can_catch, difficulty |-> difficulty,
     catch_type |-> catch_type, reaction_time |-> reaction_time,
     movement_required |-> movement_required,
     movement_possible |-> movement_possible,
     ball_speed_at_fielder |-> ball_speed_at_fielder,
     height_at_intercept |-> height_at_intercept,
     time_to_intercept |-> time_to_intercept]

\* variant: the score of a catch on the run starts from zero
catch_difficulty_run_from_zero(time_to_intercept, lateral_dist_actual, height, had_optimal, ball_speed_kmh) ==
    LET movement_time == Max(0, time_to_intercept - FIELDER_REACTION_TIME)
        movement_possible == (movement_time * FIELDER_RUN_SPEED) \div 1000
                             + FIELDER_DIVE_RANGE
        reaction_score ==
            clamp(10000 - ((time_to_intercept - 500) * 10000) \div 1500, 0, 10000)
        run_dist == lateral_dist_actual - FIELDER_STATIC_RANGE
        max_run == Max(1, movement_possible - FIELDER_STATIC_RANGE)
        movement_score ==
            IF lateral_dist_actual <= FIELDER_STATIC_RANGE THEN 0
            ELSE IF lateral_dist_actual <= FIELDER_STATIC_RANGE + FIELDER_DIVE_RANGE
            THEN 3000 + (2000 * (lateral_dist_actual - FIELDER_STATIC_RANGE))
                        \div FIELDER_DIVE_RANGE
            ELSE ratio(run_dist, max_run) \div 2
        height_score ==
            IF had_optimal THEN 0
            ELSE IF CATCH_OPTIMAL_MIN <= height /\ height <= CATCH_OPTIMAL_MAX THEN 0
            ELSE IF height < CATCH_OPTIMAL_MIN
            THEN Min(10000, ((CATCH_OPTIMAL_MIN - height) * 10000) \div 70)
            ELSE Min(10000, ((height - CATCH_OPTIMAL_MAX) * 10000) \div 170)
        speed_score == clamp(((ball_speed_kmh - 6000) * 10000) \div 6000, 0, 10000)
    IN  (WEIGHT_REACTION * reaction_score + WEIGHT_MOVEMENT * movement_score
         + WEIGHT_HEIGHT * height_score + WEIGHT_SPEED * speed_score) \div 100

\* The difficulty components and their weighted sum, from line 774 on;
\* scores in 1/10000, ball speed in 1/100 km/h.
catch_difficulty(time_to_intercept, lateral_dist_actual, height, had_optimal, ball_speed_kmh) ==
    LET movement_time == Max(0, time_to_intercept - FIELDER_REACTION_TIME)
        movement_possible == (movement_time * FIELDER_RUN_SPEED) \div 1000
                             + FIELDER_DIVE_RANGE
        reaction_score ==
            clamp(10000 - ((time_to_intercept - 500) * 10000) \div 1500, 0, 10000)
        run_dist == lateral_dist_actual - FIELDER_STATIC_RANGE
        max_run == Max(1, movement_possible - FIELDER_STATIC_RANGE)
        movement_score ==
            IF lateral_dist_actual <= FIELDER_STATIC_RANGE THEN 0
            ELSE IF lateral_dist_actual <= FIELDER_STATIC_RANGE + FIELDER_DIVE_RANGE
            THEN 3000 + (2000 * (lateral_dist_actual - FIELDER_STATIC_RANGE))
                        \div FIELDER_DIVE_RANGE
            ELSE 5000 + ratio(run_dist, max_run) \div 2
        height_score ==
            IF had_optimal THEN 0
            ELSE IF CATCH_OPTIMAL_MIN <= height /\ height <= CATCH_OPTIMAL_MAX THEN 0
            ELSE IF height < CATCH_OPTIMAL_MIN
            THEN Min(10000, ((CATCH_OPTIMAL_MIN - height) * 10000) \div 70)
            ELSE Min(10000, ((height - CATCH_OPTIMAL_MAX) * 10000) \div 170)
        speed_score == clamp(((ball_speed_kmh - 6000) * 10000) \div 6000, 0, 10000)
    IN  (WEIGHT_REACTION * reaction_score + WEIGHT_MOVEMENT * movement_score
         + WEIGHT_HEIGHT * height_score + WEIGHT_SPEED * speed_score) \div 100

\* variant: a catch counts as hard only from a score of 0.3
analyze_catch_difficulty_late_hard(fielder, traj, intercept_distance, lateral_distance, landing_x, landing_y, projected_distance, max_height) ==
    LET ic == find_catchable_intercept(fielder, traj, landing_x, landing_y,
                                       projected_distance, max_height)
        ball_speed_kmh == (traj.horizontal_speed * 36) \div 10
    IN  IF ic.time = Inf
        THEN CatchAnalysis(FALSE, 10000, None, 0, lateral_distance, 0,
                           ball_speed_kmh, 0, 0)
        ELSE
        LET movement_time == Max(0, ic.time - FIELDER_REACTION_TIME)
            movement_possible == (movement_time * FIELDER_RUN_SPEED) \div 1000
                                 + FIELDER_DIVE_RANGE
            difficulty == catch_difficulty(ic.time, ic.lateral_distance,
                                           ic.height, ic.had_optimal, ball_speed_kmh)
            catch_type == IF difficulty < 3000 THEN "regulation"
                          ELSE IF difficulty < 6000 THEN "hard"
                          ELSE "spectacular"
        IN  CatchAnalysis(TRUE, difficulty, Some(catch_type), ic.time,
                          ic.lateral_distance, movement_possible, ball_speed_kmh,
                          ic.height, ic.time)

analyze_catch_difficulty(fielder, traj, intercept_distance, lateral_distance, landing_x, landing_y, projected_distance, max_height) ==
    LET ic == find_catchable_intercept(fielder, traj, landing_x, landing_y,
                                       projected_distance, max_height)
        ball_speed_kmh == (traj.horizontal_speed * 36) \div 10
    IN  IF ic.time = Inf
        THEN CatchAnalysis(FALSE, 10000, None, 0, lateral_distance, 0,
                           ball_speed_kmh, 0, 0)
        ELSE
        LET movement_time == Max(0, ic.time - FIELDER_REACTION_TIME)
            movement_possible == (movement_time * FIELDER_RUN_SPEED) \div 1000
                                 + FIELDER_DIVE_RANGE
            difficulty == catch_difficulty(ic.time, ic.lateral_distance,
                                           ic.height, ic.had_optimal, ball_speed_kmh)
            catch_type == IF difficulty < 2500 THEN "regulation"
                          ELSE IF difficulty < 6000 THEN "hard"
                          ELSE "spectacular"
        IN  CatchAnalysis(TRUE, difficulty, Some(catch_type), ic.time,
                          ic.lateral_distance, movement_possible, ball_speed_kmh,
                          ic.height, ic.time)

-----------------------------------------------------------------------------
(* Outcome rolling.  u is the uniform draw that random.random() returns. *)

\* variant: the probability is not capped
catch_probability_uncapped(analysis_difficulty, difficulty) ==
    LET base_prob == 980 - (520 * analysis_difficulty) \div 10000
        modifier == IF difficulty \in DOMAIN CATCH_DIFFICULTY_MODIFIER
                    THEN CATCH_DIFFICULTY_MODIFIER[difficulty] ELSE 100
    IN  (base_prob * modifier) \div 100

catch_probability(analysis_difficulty, difficulty) ==
    LET base_prob == 980 - (520 * analysis_difficulty) \div 10000
        modifier == IF difficulty \in DOMAIN CATCH_DIFFICULTY_MODIFIER
                    THEN CATCH_DIFFICULTY_MODIFIER[difficulty] ELSE 100
    IN  Min(990, (base_prob * modifier) \div 100)

roll_catch_outcome(analysis, difficulty, u) ==
    IF u < catch_probability(analysis.difficulty, difficulty)
    THEN "caught" ELSE "dropped"

\* variant: the fumble threshold is not added to the stop threshold
roll_ground_fielding_outcome_not_cumulative(probs, u) ==
    LET gf == probs
        roll == u
    IN  IF roll < gf.stopped THEN "stopped"
        ELSE IF roll < gf.misfield_no_extra THEN "misfield_no_extra"
        ELSE "misfield_extra"

roll_ground_fielding_outcome(probs, u) ==
    LET gf == probs
        roll == u
    IN  IF roll < gf.stopped THEN "stopped"
        ELSE IF roll < gf.stopped + gf.misfield_no_extra THEN "misfield_no_extra"
        ELSE "misfield_extra"

\* random.choice(seq) with the uniform draw u
random_choice(seq, u) == seq[(u * Len(seq)) \div 1000 + 1]

-----------------------------------------------------------------------------
(* Ground fielding time calculations *)

get_ground_ball_speed(exit_speed_kmh, dist) ==
    IF exit_speed_kmh <= 0 \/ dist <= 0 THEN 300
    ELSE LET exit_speed_ms == (exit_speed_kmh * 1000) \div 36
             friction_factor == exp_neg((GROUND_FRICTION * dist * 5) \div 100)
         IN  Max(300, (exit_speed_ms * friction_factor) \div 1000)

get_ball_travel_time(exit_speed_kmh, dist) ==
    IF dist <= 0 THEN 0
    ELSE (dist * 1000) \div get_ground_ball_speed(exit_speed_kmh, dist)

get_throw_distance(x, y) ==
    LET dist_batting == distance(x, y, 0, 0)
        dist_bowling == distance(x, y + PITCH_LENGTH, 0, 0)
    IN  Max(10, Min(dist_batting, dist_bowling))

calculate_fielding_time(exit_speed, intercept_distance, lateral_distance, fielder_x, fielder_y) ==
    LET ball_time == get_ball_travel_time(exit_speed, intercept_distance)
        available_movement_time == Max(0, ball_time - FIELDER_REACTION_TIME)
        distance_covered == (available_movement_time * FIELDER_RUN_SPEED) \div 1000
        effective_lateral == Max(0, lateral_distance - distance_covered)
        collection == IF effective_lateral < 50 THEN COLLECTION_TIME_DIRECT
                      ELSE IF effective_lateral < 200 THEN COLLECTION_TIME_MOVING
                      ELSE COLLECTION_TIME_DIVING
        throw_dist == get_throw_distance(fielder_x, fielder_y)
        throw_time == (throw_dist * 1000) \div THROW_SPEED
    IN  ball_time + collection + throw_time

\* variant: the time of the second run is not taken off before the third
calculate_runs_from_fielding_time_kept_remaining(fielding_time, is_misfield) ==
    LET effective_time == IF is_misfield THEN fielding_time + MISFIELD_TIME_PENALTY
                          ELSE fielding_time
        remaining == effective_time - TIME_FOR_FIRST_RUN
    IN  IF effective_time < TIME_FOR_FIRST_RUN THEN 0
        ELSE IF remaining >= TIME_FOR_EXTRA_RUN
        THEN (IF remaining >= TIME_FOR_EXTRA_RUN THEN 3 ELSE 2)
        ELSE 1

calculate_runs_from_fielding_time(fielding_time, is_misfield) ==
    LET effective_time == IF is_misfield THEN fielding_time + MISFIELD_TIME_PENALTY
                          ELSE fielding_time
        remaining == effective_time - TIME_FOR_FIRST_RUN
    IN  IF effective_time < TIME_FOR_FIRST_RUN THEN 0
        ELSE IF remaining >= TIME_FOR_EXTRA_RUN
        THEN (IF remaining - TIME_FOR_EXTRA_RUN >= TIME_FOR_EXTRA_RUN THEN 3 ELSE 2)
        ELSE 1

-----------------------------------------------------------------------------
(* Result builders *)

\* variant: the result never names the fielder
build_result_anonymous(outcome, runs, is_boundary, is_aerial, fielder, end_x, end_y, description, catch_analysis) ==
    [outcome |-> outcome,
     runs |-> runs,
     is_boundary |-> is_boundary,
     is_aerial |-> is_aerial,
     fielder_involved |-> None,
     fielder_position |-> IF fielder # None
                          THEN Some([x |-> fielder[1].x, y |-> fielder[1].y])
                          ELSE None,
     end_position |-> [x |-> end_x, y |-> end_y],
     description |-> description,
     catch_analysis |-> catch_analysis]

\* fielder and catch_analysis are optional; a key that the source leaves out
\* of the dictionary (fielder_position, catch_analysis) is None here.  The
\* description is held as the sequence of its parts.
build_result(outcome, runs, is_boundary, is_aerial, fielder, end_x, end_y, description, catch_analysis) ==
    [outcome |-> outcome,
     runs |-> runs,
     is_boundary |-> is_boundary,
     is_aerial |-> is_aerial,
     fielder_involved |-> IF fielder # None THEN Some(fielder[1].name) ELSE None,
     fielder_position |-> IF fielder # None
                          THEN Some([x |-> fielder[1].x, y |-> fielder[1].y])
                          ELSE None,
     end_position |-> [x |-> end_x, y |-> end_y],
     description |-> description,
     catch_analysis |-> catch_analysis]

\* what a phase hands back: an optional result and the number of uniform
\* draws it consumed
Phase(res, draws) == [result |-> res, draws |-> draws]

\* variant: the source is not reset between calls and carries on from the
\* draws of the calls before
next_uniform_carried_over(stream, pos) ==
    stream[((pos + Len(returned)) % Len(stream)) + 1]

\* the next value of the randomness source
next_uniform(stream, pos) == stream[pos + 1]

-----------------------------------------------------------------------------
(* Main simulation - decomposed checks *)

\* variant: the six is built without the boundary flag
check_six_unflagged(traj, projected_distance, max_height, vertical_angle, boundary_distance, is_aerial, shot_name, landing_x, landing_y) ==
    IF projected_distance < boundary_distance THEN None
    ELSE
    LET height_at_boundary ==
            get_ball_height_at_distance(boundary_distance, projected_distance,
                                        max_height, vertical_angle)
        boundary_point ==
            get_boundary_intersection(landing_x, landing_y, boundary_distance)
    IN  IF is_aerial /\ height_at_boundary > SIX_HEIGHT_AT_BOUNDARY
        THEN Some(build_result("6", 6, FALSE, TRUE, None,
                               boundary_point.x, boundary_point.y,
                               <<shot_name, "for six!">>, None))
        ELSE None

\* variant: the six is awarded on the height at the boundary alone
check_six_any_trajectory(traj, projected_distance, max_height, vertical_angle, boundary_distance, is_aerial, shot_name, landing_x, landing_y) ==
    IF projected_distance < boundary_distance THEN None
    ELSE
    LET height_at_boundary ==
            get_ball_height_at_distance(boundary_distance, projected_distance,
                                        max_height, vertical_angle)
        boundary_point ==
            get_boundary_intersection(landing_x, landing_y, boundary_distance)
    IN  IF height_at_boundary > SIX_HEIGHT_AT_BOUNDARY
        THEN Some(build_result("6", 6, TRUE, TRUE, None,
                               boundary_point.x, boundary_point.y,
                               <<shot_name, "for six!">>, None))
        ELSE None

\* variant: the height of the apex is taken for the height at the boundary
check_six_apex_height(traj, projected_distance, max_height, vertical_angle, boundary_distance, is_aerial, shot_name, landing_x, landing_y) ==
    IF projected_distance < boundary_distance THEN None
    ELSE
    LET height_at_boundary ==
            get_ball_height_at_distance(boundary_distance, projected_distance,
                                        max_height, vertical_angle)
        boundary_point ==
            get_boundary_intersection(landing_x, landing_y, boundary_distance)
    IN  IF is_aerial /\ max_height > SIX_HEIGHT_AT_BOUNDARY
        THEN Some(build_result("6", 6, TRUE, TRUE, None,
                               boundary_point.x, boundary_point.y,
                               <<shot_name, "for six!">>, None))
        ELSE None

check_six(traj, projected_distance, max_height, vertical_angle, boundary_distance, is_aerial, shot_name, landing_x, landing_y) ==
    IF projected_distance < boundary_distance THEN None
    ELSE
    LET height_at_boundary ==
            get_ball_height_at_distance(boundary_distance, projected_distance,
                                        max_height, vertical_angle)
        boundary_point ==
            get_boundary_intersection(landing_x, landing_y, boundary_distance)
    IN  IF is_aerial /\ height_at_boundary > SIX_HEIGHT_AT_BOUNDARY
        THEN Some(build_result("6", 6, TRUE, TRUE, None,
                               boundary_point.x, boundary_point.y,
                               <<shot_name, "for six!">>, None))
        ELSE None

\* stable sort of a sequence of records by the field k (list.sort)
RECURSIVE insert_sorted(_, _, _)
\* variant: the candidates are ranked from the largest key down
insert_sorted_descending(sorted, e, k) ==
    IF sorted = << >> THEN <<e>>
    ELSE IF e[k] > Head(sorted)[k] THEN <<e>> \o sorted
    ELSE <<Head(sorted)>> \o insert_sorted(Tail(sorted), e, k)

insert_sorted(sorted, e, k) ==
    IF sorted = << >> THEN <<e>>
    ELSE IF e[k] < Head(sorted)[k] THEN <<e>> \o sorted
    ELSE <<Head(sorted)>> \o insert_sorted(Tail(sorted), e, k)

RECURSIVE sort_by(_, _)
sort_by(seq, k) ==
    IF seq = << >> THEN << >>
    ELSE insert_sorted(sort_by(SubSeq(seq, 1, Len(seq) - 1), k), seq[Len(seq)], k)

\* the eligibility gates of _evaluate_catches, lines 1038-1050
catch_eligible(fielder, landing_x, landing_y, projected_distance) ==
    /\ is_fielder_in_ball_path(fielder, landing_x, landing_y)
    /\ ~(distance(fielder.x, fielder.y, 0, 0)
           > projected_distance + CATCH_EXTENDED_RANGE)
    /\ ~(distance_point_to_line_segment(fielder.x, fielder.y, 0, 0,
                                        landing_x, landing_y).t
           < FIELDER_PATH_START_T)

\* the first loop of _evaluate_catches: the chances, in field order
RECURSIVE catch_chances(_, _, _, _, _, _, _)
catch_chances(fielders, i, traj, projected_distance, max_height, landing_x, landing_y) ==
    IF i > Len(fielders) THEN << >>
    ELSE
    LET fielder == fielders[i]
        rest == catch_chances(fielders, i + 1, traj, projected_distance,
                              max_height, landing_x, landing_y)
    IN  IF ~catch_eligible(fielder, landing_x, landing_y, projected_distance)
        THEN rest
        ELSE
        LET seg == distance_point_to_line_segment(fielder.x, fielder.y, 0, 0,
                                                  landing_x, landing_y)
            intercept_dist == distance(seg.closest_x, seg.closest_y, 0, 0)
            analysis == analyze_catch_difficulty(fielder, traj, intercept_dist,
                                                 seg.dist, landing_x, landing_y,
                                                 projected_distance, max_height)
        IN  IF analysis.can_catch
            THEN <<[fielder |-> fielder, analysis |-> analysis,
                    intercept_dist |-> intercept_dist]>> \o rest
            ELSE rest

\* variant: a drop in the deep is worth as little as a drop in the ring
calculate_runs_for_dropped_any_ring(projected_distance, exit_speed, u) ==
    IF projected_distance >= MID_FIELD_RADIUS THEN random_choice(<<1, 2, 3>>, u)
    ELSE IF projected_distance >= INNER_RING_RADIUS THEN random_choice(<<1, 1, 2>>, u)
    ELSE 1

calculate_runs_for_dropped(projected_distance, exit_speed, u) ==
    IF projected_distance >= MID_FIELD_RADIUS THEN random_choice(<<2, 2, 3>>, u)
    ELSE IF projected_distance >= INNER_RING_RADIUS THEN random_choice(<<1, 1, 2>>, u)
    ELSE 1

\* number of draws _calculate_runs_for_dropped takes from the source
draws_for_dropped(projected_distance) ==
    IF projected_distance >= INNER_RING_RADIUS THEN 1 ELSE 0

catch_description(analysis, fielder) ==
    <<IF analysis.catch_type = Some("spectacular") THEN "Spectacular catch"
      ELSE IF analysis.catch_type = Some("hard") THEN "Great catch"
      ELSE "Caught",
      IF analysis.movement_required > FIELDER_STATIC_RANGE + 100 THEN "(running)"
      ELSE IF analysis.movement_required > FIELDER_STATIC_RANGE THEN "(diving)"
      ELSE "",
      "at", fielder.name>>

\* the second loop of _evaluate_catches: roll the chances in sorted order
RECURSIVE roll_chances(_, _, _, _, _, _, _, _, _, _, _, _)
roll_chances(chances, i, traj, projected_distance, landing_x, landing_y, boundary_distance, difficulty, exit_speed, shot_name, stream, pos) ==
    IF i > Len(chances) THEN Phase(None, 0)
    ELSE
    LET fielder == chances[i].fielder
        analysis == chances[i].analysis
        outcome == roll_catch_outcome(analysis, difficulty, next_uniform(stream, pos))
    IN  IF outcome = "caught"
        THEN LET at == get_ball_position_at_time(traj, analysis.time_to_intercept,
                                                 landing_x, landing_y)
             IN  Phase(Some(build_result("caught", 0, FALSE, TRUE, Some(fielder),
                                         at.x, at.y,
                                         catch_description(analysis, fielder),
                                         Some(analysis))), 1)
        ELSE IF outcome = "dropped"
        THEN IF projected_distance >= boundary_distance
             THEN LET bp == get_boundary_intersection(landing_x, landing_y,
                                                      boundary_distance)
                  IN  Phase(Some(build_result("4", 4, TRUE, TRUE, Some(fielder),
                                              bp.x, bp.y,
                                              <<shot_name, "dropped at",
                                                fielder.name, "four!">>,
                                              Some(analysis))), 1)
             ELSE LET runs == calculate_runs_for_dropped(
                                  projected_distance, exit_speed,
                                  next_uniform(stream, pos + 1))
                  IN  Phase(Some(build_result("dropped", runs, FALSE, TRUE,
                                              Some(fielder), landing_x, landing_y,
                                              <<shot_name, "dropped at",
                                                fielder.name, "runs", ToString(runs)>>,
                                              Some(analysis))),
                            1 + draws_for_dropped(projected_distance))
        ELSE LET later == roll_chances(chances, i + 1, traj, projected_distance,
                                       landing_x, landing_y, boundary_distance,
                                       difficulty, exit_speed, shot_name,
                                       stream, pos + 1)
             IN  Phase(later.result, later.draws + 1)

\* variant: the catch phase is entered on the height of the shot alone
evaluate_catches_any_height(fielders, traj, projected_distance, max_height, landing_x, landing_y, boundary_distance, difficulty, exit_speed, shot_name, is_aerial, stream, pos) ==
    IF max_height < CATCH_HEIGHT_MIN THEN Phase(None, 0)
    ELSE roll_chances(sort_by(catch_chances(fielders, 1, traj, projected_distance,
                                            max_height, landing_x, landing_y),
                              "intercept_dist"),
                      1, traj, projected_distance, landing_x, landing_y,
                      boundary_distance, difficulty, exit_speed, shot_name,
                      stream, pos)

evaluate_catches(fielders, traj, projected_distance, max_height, landing_x, landing_y, boundary_distance, difficulty, exit_speed, shot_name, is_aerial, stream, pos) ==
    IF ~is_aerial \/ max_height < CATCH_HEIGHT_MIN THEN Phase(None, 0)
    ELSE roll_chances(sort_by(catch_chances(fielders, 1, traj, projected_distance,
                                            max_height, landing_x, landing_y),
                              "intercept_dist"),
                      1, traj, projected_distance, landing_x, landing_y,
                      boundary_distance, difficulty, exit_speed, shot_name,
                      stream, pos)

\* variant: the four is built without the boundary flag
check_boundary_four_unflagged(projected_distance, boundary_distance, landing_x, landing_y, is_aerial, shot_name) ==
    IF projected_distance < boundary_distance THEN None
    ELSE LET bp == get_boundary_intersection(landing_x, landing_y, boundary_distance)
         IN  Some(build_result("4", 4, FALSE, is_aerial, None, bp.x, bp.y,
                               <<shot_name, "to the boundary for four!">>, None))

\* variant: a ball that stops within 5 m of the rope is given four
check_boundary_four_near_rope(projected_distance, boundary_distance, landing_x, landing_y, is_aerial, shot_name) ==
    IF projected_distance + 500 < boundary_distance THEN None
    ELSE LET bp == get_boundary_intersection(landing_x, landing_y, boundary_distance)
         IN  Some(build_result("4", 4, TRUE, is_aerial, None, bp.x, bp.y,
                               <<shot_name, "to the boundary for four!">>, None))

check_boundary_four(projected_distance, boundary_distance, landing_x, landing_y, is_aerial, shot_name) ==
    IF projected_distance < boundary_distance THEN None
    ELSE LET bp == get_boundary_intersection(landing_x, landing_y, boundary_distance)
         IN  Some(build_result("4", 4, TRUE, is_aerial, None, bp.x, bp.y,
                               <<shot_name, "to the boundary for four!">>, None))

\* the eligibility gates of _evaluate_ground_fielding, lines 1174-1193
ground_eligible(fielder, projected_distance, landing_x, landing_y, exit_speed) ==
    /\ is_fielder_in_ball_path(fielder, landing_x, landing_y)
    /\ LET seg == distance_point_to_line_segment(fielder.x, fielder.y, 0, 0,
                                                 landing_x, landing_y)
           intercept_dist == distance(seg.closest_x, seg.closest_y, 0, 0)
           fielder_dist == distance(fielder.x, fielder.y, 0, 0)
           ball_travel_time == get_ball_travel_time(exit_speed, intercept_dist)
           available_movement ==
               (Max(0, ball_travel_time - FIELDER_REACTION_TIME) * FIELDER_RUN_SPEED)
               \div 1000
           max_reach == GROUND_FIELDING_RANGE + available_movement
       IN  /\ ~(seg.t < FIELDER_PATH_START_T)
           /\ seg.dist <= max_reach
           /\ fielder_dist <= projected_distance + max_reach

\* the first loop of _evaluate_ground_fielding: the chances, in field order
RECURSIVE ground_chances(_, _, _, _, _, _)
ground_chances(fielders, i, projected_distance, landing_x, landing_y, exit_speed) ==
    IF i > Len(fielders) THEN << >>
    ELSE
    LET fielder == fielders[i]
        rest == ground_chances(fielders, i + 1, projected_distance, landing_x,
                               landing_y, exit_speed)
    IN  IF ~ground_eligible(fielder, projected_distance, landing_x, landing_y,
                            exit_speed)
        THEN rest
        ELSE
        LET seg == distance_point_to_line_segment(fielder.x, fielder.y, 0, 0,
                                                  landing_x, landing_y)
        IN  <<[fielder |-> fielder, lat_dist |-> seg.dist,
               intercept_dist |-> distance(seg.closest_x, seg.closest_y, 0, 0)]>>
            \o rest

\* variant: a ball that gets past the fielder is left to the later phases
roll_ground_chances_escape(chances, landing_x, landing_y, exit_speed, is_aerial, shot_name, probs, stream, pos) ==
    IF chances = << >> THEN Phase(None, 0)
    ELSE
    LET fielder == chances[1].fielder
        outcome == roll_ground_fielding_outcome(probs, next_uniform(stream, pos))
        fielding_time == calculate_fielding_time(exit_speed, chances[1].intercept_dist,
                                                 chances[1].lat_dist,
                                                 fielder.x, fielder.y)
    IN  IF outcome = "stopped"
        THEN LET runs == calculate_runs_from_fielding_time(fielding_time, FALSE)
             IN  IF runs = 0
                 THEN Phase(Some(build_result("dot", 0, FALSE, is_aerial,
                                              Some(fielder), fielder.x, fielder.y,
                                              <<shot_name, "fielded by",
                                                fielder.name, "no run">>, None)), 1)
                 ELSE Phase(Some(build_result(ToString(runs), runs, FALSE, is_aerial,
                                              Some(fielder), fielder.x, fielder.y,
                                              <<shot_name, fielder.name, "fields",
                                                ToString(runs)>>, None)), 1)
        ELSE IF outcome = "misfield_no_extra"
        THEN LET runs == Max(1, calculate_runs_from_fielding_time(
                                    fielding_time + FUMBLE_TIME_PENALTY, FALSE))
             IN  Phase(Some(build_result("misfield", runs, FALSE, is_aerial,
                                         Some(fielder), fielder.x, fielder.y,
                                         <<shot_name, "misfield by", fielder.name,
                                           ToString(runs)>>, None)), 1)
        ELSE Phase(None, 1)

\* variant: a ball that gets past the fielder is still reported at the fielder
roll_ground_chances_escape_at_fielder(chances, landing_x, landing_y, exit_speed, is_aerial, shot_name, probs, stream, pos) ==
    IF chances = << >> THEN Phase(None, 0)
    ELSE
    LET fielder == chances[1].fielder
        outcome == roll_ground_fielding_outcome(probs, next_uniform(stream, pos))
        fielding_time == calculate_fielding_time(exit_speed, chances[1].intercept_dist,
                                                 chances[1].lat_dist,
                                                 fielder.x, fielder.y)
    IN  IF outcome = "stopped"
        THEN LET runs == calculate_runs_from_fielding_time(fielding_time, FALSE)
             IN  IF runs = 0
                 THEN Phase(Some(build_result("dot", 0, FALSE, is_aerial,
                                              Some(fielder), fielder.x, fielder.y,
                                              <<shot_name, "fielded by",
                                                fielder.name, "no run">>, None)), 1)
                 ELSE Phase(Some(build_result(ToString(runs), runs, FALSE, is_aerial,
                                              Some(fielder), fielder.x, fielder.y,
                                              <<shot_name, fielder.name, "fields",
                                                ToString(runs)>>, None)), 1)
        ELSE IF outcome = "misfield_no_extra"
        THEN LET runs == Max(1, calculate_runs_from_fielding_time(
                                    fielding_time + FUMBLE_TIME_PENALTY, FALSE))
             IN  Phase(Some(build_result("misfield", runs, FALSE, is_aerial,
                                         Some(fielder), fielder.x, fielder.y,
                                         <<shot_name, "misfield by", fielder.name,
                                           ToString(runs)>>, None)), 1)
        ELSE LET runs == calculate_runs_from_fielding_time(fielding_time, TRUE)
             IN  Phase(Some(build_result("misfield", runs, FALSE, is_aerial,
                                         Some(fielder), fielder.x, fielder.y,
                                         <<shot_name, "misfield by", fielder.name,
                                           ToString(runs)>>, None)), 1)

\* the second loop of _evaluate_ground_fielding: every outcome of the roll
\* returns, so only the first chance is ever rolled
roll_ground_chances(chances, landing_x, landing_y, exit_speed, is_aerial, shot_name, probs, stream, pos) ==
    IF chances = << >> THEN Phase(None, 0)
    ELSE
    LET fielder == chances[1].fielder
        outcome == roll_ground_fielding_outcome(probs, next_uniform(stream, pos))
        fielding_time == calculate_fielding_time(exit_speed, chances[1].intercept_dist,
                                                 chances[1].lat_dist,
                                                 fielder.x, fielder.y)
    IN  IF outcome = "stopped"
        THEN LET runs == calculate_runs_from_fielding_time(fielding_time, FALSE)
             IN  IF runs = 0
                 THEN Phase(Some(build_result("dot", 0, FALSE, is_aerial,
                                              Some(fielder), fielder.x, fielder.y,
                                              <<shot_name, "fielded by",
                                                fielder.name, "no run">>, None)), 1)
                 ELSE Phase(Some(build_result(ToString(runs), runs, FALSE, is_aerial,
                                              Some(fielder), fielder.x, fielder.y,
                                              <<shot_name, fielder.name, "fields",
                                                ToString(runs)>>, None)), 1)
        ELSE IF outcome = "misfield_no_extra"
        THEN LET runs == Max(1, calculate_runs_from_fielding_time(
                                    fielding_time + FUMBLE_TIME_PENALTY, FALSE))
             IN  Phase(Some(build_result("misfield", runs, FALSE, is_aerial,
                                         Some(fielder), fielder.x, fielder.y,
                                         <<shot_name, "misfield by", fielder.name,
                                           ToString(runs)>>, None)), 1)
        ELSE LET runs == calculate_runs_from_fielding_time(fielding_time, TRUE)
             IN  Phase(Some(build_result("misfield", runs, FALSE, is_aerial,
                                         Some(fielder), landing_x, landing_y,
                                         <<shot_name, "misfield by", fielder.name,
                                           ToString(runs)>>, None)), 1)

evaluate_ground_fielding(fielders, projected_distance, landing_x, landing_y, exit_speed, is_aerial, shot_name, probs, stream, pos) ==
    roll_ground_chances(sort_by(ground_chances(fielders, 1, projected_distance,
                                               landing_x, landing_y, exit_speed),
                                "lat_dist"),
                        landing_x, landing_y, exit_speed, is_aerial, shot_name,
                        probs, stream, pos)

\* min(fielders, key=distance to the landing point): the first minimum
RECURSIVE nearest_fielder(_, _, _, _, _)
nearest_fielder(fielders, i, best, landing_x, landing_y) ==
    IF i > Len(fielders) THEN best
    ELSE nearest_fielder(fielders, i + 1,
            IF distance(fielders[i].x, fielders[i].y, landing_x, landing_y)
               < distance(best.x, best.y, landing_x, landing_y)
            THEN fielders[i] ELSE best,
            landing_x, landing_y)

\* variant: a single run is reported as a dot ball
fallback_nearest_fielder_late_dot(fielders, landing_x, landing_y, projected_distance, exit_speed, is_aerial, shot_name) ==
    IF fielders = << >>
    THEN build_result("4", 4, TRUE, is_aerial, None, landing_x, landing_y,
                      <<shot_name, "to the boundary">>, None)
    ELSE
    LET nearest == nearest_fielder(fielders, 2, fielders[1], landing_x, landing_y)
        nearest_dist == distance(nearest.x, nearest.y, landing_x, landing_y)
        ball_time == get_ball_travel_time(exit_speed, projected_distance)
        available_run == Max(0, ball_time - FIELDER_REACTION_TIME)
        covered == (available_run * FIELDER_RUN_SPEED) \div 1000
        remaining == Max(0, nearest_dist - covered)
        additional_run == (remaining * 1000) \div FIELDER_RUN_SPEED
        throw_dist == get_throw_distance(landing_x, landing_y)
        throw_time == (throw_dist * 1000) \div THROW_SPEED
        total_time == ball_time + additional_run + PICKUP_TIME_STOPPED + throw_time
        runs == calculate_runs_from_fielding_time(total_time, FALSE)
    IN  build_result(IF runs > 1 THEN ToString(runs) ELSE "dot", runs, FALSE,
                     is_aerial, Some(nearest), landing_x, landing_y,
                     <<shot_name, nearest.name,
                       IF runs = 0 THEN "collects, no run" ELSE "retrieves",
                       ToString(runs)>>, None)

\* variant: the outcome is the run count as text, zero included
fallback_nearest_fielder_str_runs(fielders, landing_x, landing_y, projected_distance, exit_speed, is_aerial, shot_name) ==
    IF fielders = << >>
    THEN build_result("4", 4, TRUE, is_aerial, None, landing_x, landing_y,
                      <<shot_name, "to the boundary">>, None)
    ELSE
    LET nearest == nearest_fielder(fielders, 2, fielders[1], landing_x, landing_y)
        nearest_dist == distance(nearest.x, nearest.y, landing_x, landing_y)
        ball_time == get_ball_travel_time(exit_speed, projected_distance)
        available_run == Max(0, ball_time - FIELDER_REACTION_TIME)
        covered == (available_run * FIELDER_RUN_SPEED) \div 1000
        remaining == Max(0, nearest_dist - covered)
        additional_run == (remaining * 1000) \div FIELDER_RUN_SPEED
        throw_dist == get_throw_distance(landing_x, landing_y)
        throw_time == (throw_dist * 1000) \div THROW_SPEED
        total_time == ball_time + additional_run + PICKUP_TIME_STOPPED + throw_time
        runs == calculate_runs_from_fielding_time(total_time, FALSE)
    IN  build_result(ToString(runs), runs, FALSE,
                     is_aerial, Some(nearest), landing_x, landing_y,
                     <<shot_name, nearest.name,
                       IF runs = 0 THEN "collects, no run" ELSE "retrieves",
                       ToString(runs)>>, None)

fallback_nearest_fielder(fielders, landing_x, landing_y, projected_distance, exit_speed, is_aerial, shot_name) ==
    IF fielders = << >>
    THEN build_result("4", 4, TRUE, is_aerial, None, landing_x, landing_y,
                      <<shot_name, "to the boundary">>, None)
    ELSE
    LET nearest == nearest_fielder(fielders, 2, fielders[1], landing_x, landing_y)
        nearest_dist == distance(nearest.x, nearest.y, landing_x, landing_y)
        ball_time == get_ball_travel_time(exit_speed, projected_distance)
        available_run == Max(0, ball_time - FIELDER_REACTION_TIME)
        covered == (available_run * FIELDER_RUN_SPEED) \div 1000
        remaining == Max(0, nearest_dist - covered)
        additional_run == (remaining * 1000) \div FIELDER_RUN_SPEED
        throw_dist == get_throw_distance(landing_x, landing_y)
        throw_time == (throw_dist * 1000) \div THROW_SPEED
        total_time == ball_time + additional_run + PICKUP_TIME_STOPPED + throw_time
        runs == calculate_runs_from_fielding_time(total_time, FALSE)
    IN  build_result(IF runs > 0 THEN ToString(runs) ELSE "dot", runs, FALSE,
                     is_aerial, Some(nearest), landing_x, landing_y,
                     <<shot_name, nearest.name,
                       IF runs = 0 THEN "collects, no run" ELSE "retrieves",
                       ToString(runs)>>, None)

-----------------------------------------------------------------------------
(* Main entry point *)

\* simulate_delivery up to the first check (lines 1351-1376): the locals
prepare(a) ==
    LET s == validate_and_sanitize_inputs(
                 a.exit_speed, a.horizontal_angle, a.vertical_angle,
                 a.landing_x, a.landing_y, a.projected_distance,
                 a.max_height, a.boundary_distance)
        difficulty == IF a.difficulty \notin DOMAIN DIFFICULTY_SETTINGS
                      THEN "medium" ELSE a.difficulty
        is_aerial == \/ s.max_height > AERIAL_HEIGHT_THRESHOLD
                     \/ s.vertical_angle > AERIAL_ANGLE_THRESHOLD
    IN  [exit_speed |-> s.exit_speed,
         horizontal_angle |-> s.horizontal_angle,
         vertical_angle |-> s.vertical_angle,
         landing_x |-> s.landing_x,
         landing_y |-> s.landing_y,
         projected_distance |-> s.projected_distance,
         max_height |-> s.max_height,
         boundary_distance |-> s.boundary_distance,
         warnings |-> s.warnings
                      \o (IF a.difficulty \notin DOMAIN DIFFICULTY_SETTINGS
                          THEN <<"difficulty">> ELSE << >>),
         difficulty |-> difficulty,
         probs |-> DIFFICULTY_SETTINGS[difficulty],
         fielders |-> convert_field_config(a.field_config),
         is_aerial |-> is_aerial,
         shot_name |-> get_shot_direction_name(s.horizontal_angle, is_aerial),
         traj |-> calculate_trajectory(s.exit_speed, s.horizontal_angle,
                                       s.vertical_angle)]

\* the five checks, each on the locals c
six_phase(c) ==
    check_six(c.traj, c.projected_distance, c.max_height, c.vertical_angle,
              c.boundary_distance, c.is_aerial, c.shot_name,
              c.landing_x, c.landing_y)

catches_phase(c, stream, pos) ==
    evaluate_catches(c.fielders, c.traj, c.projected_distance, c.max_height,
                     c.landing_x, c.landing_y, c.boundary_distance,
                     c.difficulty, c.exit_speed, c.shot_name, c.is_aerial,
                     stream, pos)

four_phase(c) ==
    check_boundary_four(c.projected_distance, c.boundary_distance,
                        c.landing_x, c.landing_y, c.is_aerial, c.shot_name)

ground_phase(c, stream, pos) ==
    evaluate_ground_fielding(c.fielders, c.projected_distance, c.landing_x,
                             c.landing_y, c.exit_speed, c.is_aerial,
                             c.shot_name, c.probs, stream, pos)

fallback_phase(c) ==
    fallback_nearest_fielder(c.fielders, c.landing_x, c.landing_y,
                             c.projected_distance, c.exit_speed, c.is_aerial,
                             c.shot_name)

\* the whole call as a function of its arguments and the stream of draws
simulate_delivery(a, stream) ==
    LET c == prepare(a)
        six == six_phase(c)
        catches == catches_phase(c, stream, 0)
        four == four_phase(c)
        ground == ground_phase(c, stream, 0)
    IN  IF six # None THEN six[1]
        ELSE IF catches.result # None THEN catches.result[1]
        ELSE IF four # None THEN four[1]
        ELSE IF ground.result # None THEN ground.result[1]
        ELSE fallback_phase(c)

-----------------------------------------------------------------------------
(* The calls that are explored *)

\* longest sampling loop of _find_catchable_intercept that is explored
MaxSamples == 120

NumericArgs ==
    {"exit_speed", "horizontal_angle", "vertical_angle", "landing_x",
     "landing_y", "projected_distance", "max_height"}

Shot(exit_speed, horizontal_angle, vertical_angle, landing_x, landing_y, projected_distance, max_height) ==
    [exit_speed |-> Fin(exit_speed), horizontal_angle |-> Fin(horizontal_angle),
     vertical_angle |-> Fin(vertical_angle), landing_x |-> Fin(landing_x),
     landing_y |-> Fin(landing_y), projected_distance |-> Fin(projected_distance),
     max_height |-> Fin(max_height)]

\* shots with every value finite and in range (TEST_SHOTS and variations)
LoftedSix == Shot(105, -10, 35, -1500, -7500, 7600, 2500)
StraightDrive == Shot(110, 5, 2, 800, -7000, 7000, 80)
AerialSweep == Shot(85, -110, 5, -5500, 3000, 6800, 200)
PushedSingle == Shot(45, 30, 1, 1800, -2800, 3300, 50)
LoftedCover == Shot(70, 32, 18, 2200, -3200, 3900, 600)
ThickEdge == Shot(95, 140, 15, 800, 600, 1000, 250)
LowChip == Shot(60, 30, 12, 1500, -2200, 2700, 100)
OnTheRope == Shot(100, 0, 30, 0, -6500, 6500, 2000)
DeadBall == Shot(0, 0, 0, 0, 0, 0, 0)
Dribble == Shot(20, 90, 0, 300, 0, 300, 100)
Skyer == Shot(80, 0, 88, 0, -50, 50, 2500)
CoverDrive == Shot(100, 31, 8, 3600, -6000, 7000, 120)

BaseShots ==
    {LoftedSix, StraightDrive, AerialSweep, PushedSingle, LoftedCover,
     ThickEdge, LowChip, OnTheRope, DeadBall, Dribble, Skyer, CoverDrive}

\* values that the sanitizer has to repair, per argument
BadValues(arg) ==
    CASE arg = "exit_speed" ->
           {NaN, PosInf, NegInf, NotANumber, Fin(-5), Fin(250)}
      [] arg = "horizontal_angle" -> {NaN, NotANumber, Fin(540), Fin(-725)}
      [] arg = "vertical_angle" -> {NaN, PosInf, Fin(-5), Fin(95)}
      [] arg = "landing_x" -> {NaN, PosInf}
      [] arg = "landing_y" -> {NegInf, NotANumber}
      [] arg = "projected_distance" -> {NaN, PosInf, Fin(-100), Fin(20000)}
      [] arg = "max_height" -> {NaN, NegInf, Fin(-100), Fin(6000)}

\* shots with one argument that is not finite or out of range
CorruptShots ==
    {[s EXCEPT ![arg] = bad] :
        <<s, arg, bad>> \in
            {x \in {LoftedSix, PushedSingle, LoftedCover, Skyer}
                   \X NumericArgs
                   \X {NaN, PosInf, NegInf, NotANumber, Fin(-5), Fin(250),
                       Fin(540), Fin(-725), Fin(95), Fin(-100), Fin(20000),
                       Fin(6000)} :
                x[3] \in BadValues(x[2])}}

Boundaries == {Fin(6500), Fin(7500), Fin(3000), Fin(1000), Fin(0), Fin(-100), NaN}

Difficulties == {"easy", "medium", "hard", "expert"}

Entry(x, y, name) == [isdict |-> TRUE, x |-> Fin(x), y |-> Fin(y), name |-> Some(name)]
NotADict == [isdict |-> FALSE, x |-> NotANumber, y |-> NotANumber, name |-> None]

StandardField ==
    <<Entry(0, 300, "wicketkeeper"), Entry(500, 400, "first slip"),
      Entry(2000, -3000, "cover"), Entry(500, -3500, "mid-off"),
      Entry(-4500, -4500, "deep midwicket")>>

\* two fielders on the path of most shots, entries without a name, and
\* entries that are dropped
RingField ==
    <<NotADict,
      [isdict |-> TRUE, x |-> Fin(1700), y |-> Fin(-2500), name |-> None],
      [isdict |-> TRUE, x |-> NaN, y |-> Fin(100), name |-> Some("ghost")],
      Entry(1200, -2000, "extra cover"),
      Entry(50, -30, "silly point"),
      Entry(-5200, 2900, "deep fine leg"),
      Entry(-1000, -6200, "long on")>>

MalformedField ==
    <<NotADict,
      [isdict |-> TRUE, x |-> NaN, y |-> Fin(100), name |-> Some("ghost")],
      [isdict |-> TRUE, x |-> Fin(100), y |-> NotANumber, name |-> None],
      [isdict |-> TRUE, x |-> PosInf, y |-> NegInf, name |-> Some("far")]>>

LegSideField ==
    <<Entry(-2000, -2500, "midwicket"), Entry(-1500, -1000, "square leg")>>

FieldConfigs == {<< >>, MalformedField, StandardField, RingField, LegSideField}

\* uniform draws, in 1/1000
Draws == {100, 880, 960, 995}
Streams == {<<u1, u2>> : u1 \in Draws, u2 \in {100, 880}}

Call(shot, boundary_distance, field_config, difficulty) ==
    [exit_speed |-> shot.exit_speed,
     horizontal_angle |-> shot.horizontal_angle,
     vertical_angle |-> shot.vertical_angle,
     landing_x |-> shot.landing_x,
     landing_y |-> shot.landing_y,
     projected_distance |-> shot.projected_distance,
     max_height |-> shot.max_height,
     field_config |-> field_config,
     boundary_distance |-> boundary_distance,
     difficulty |-> difficulty]

\* number of samples that _find_catchable_intercept takes for the locals c
samples_needed(c) ==
    IF c.traj.horizontal_speed > 0
    THEN (c.projected_distance * 1000)
         \div (c.traj.horizontal_speed * TRAJECTORY_TIME_STEP)
    ELSE 0

CleanCalls ==
    {Call(s, b, f, d) : s \in BaseShots, b \in Boundaries,
                        f \in FieldConfigs, d \in Difficulties}

CorruptCalls ==
    {Call(s, b, f, d) : s \in CorruptShots, b \in {Fin(6500), PosInf},
                        f \in {RingField}, d \in {"medium", "expert"}}

Calls == {a \in CleanCalls \cup CorruptCalls : samples_needed(prepare(a)) <= MaxSamples}

-----------------------------------------------------------------------------
(* The call of simulate_delivery, phase by phase *)

Init ==
    /\ args \in Calls
    /\ rng \in Streams
    /\ rng_pos = 0
    /\ pc = "start"
    /\ ctx = None
    /\ result = None
    /\ trace = << >>
    /\ returned = << >>

\* lines 1351-1380
Sanitize ==
    /\ pc = "start"
    /\ ctx' = prepare(args)
    /\ pc' = "six"
    /\ trace' = Append(trace, "sanitize")
    /\ UNCHANGED <<args, rng, rng_pos, result, returned>>

\* variant: the six is not returned and the catch phase follows it
CheckSix_fallthrough ==
    /\ pc = "six"
    /\ LET r == six_phase(ctx)
       IN  /\ result' = r
           /\ pc' = "catches"
    /\ trace' = Append(trace, "six")
    /\ UNCHANGED <<args, rng, rng_pos, ctx, returned>>

\* lines 1382-1387
CheckSix ==
    /\ pc = "six"
    /\ LET r == six_phase(ctx)
       IN  /\ result' = r
           /\ pc' = IF r # None THEN "done" ELSE "catches"
    /\ trace' = Append(trace, "six")
    /\ UNCHANGED <<args, rng, rng_pos, ctx, returned>>

\* lines 1389-1395
EvaluateCatches ==
    /\ pc = "catches"
    /\ LET ph == catches_phase(ctx, rng, rng_pos)
       IN  /\ result' = ph.result
           /\ rng_pos' = rng_pos + ph.draws
           /\ pc' = IF ph.result # None THEN "done" ELSE "four"
    /\ trace' = Append(trace, "catches")
    /\ UNCHANGED <<args, rng, ctx, returned>>

\* lines 1397-1402
CheckBoundaryFour ==
    /\ pc = "four"
    /\ LET r == four_phase(ctx)
       IN  /\ result' = r
           /\ pc' = IF r # None THEN "done" ELSE "ground"
    /\ trace' = Append(trace, "four")
    /\ UNCHANGED <<args, rng, rng_pos, ctx, returned>>

\* lines 1404-1409
EvaluateGroundFielding ==
    /\ pc = "ground"
    /\ LET ph == ground_phase(ctx, rng, rng_pos)
       IN  /\ result' = ph.result
           /\ rng_pos' = rng_pos + ph.draws
           /\ pc' = IF ph.result # None THEN "done" ELSE "fallback"
    /\ trace' = Append(trace, "ground")
    /\ UNCHANGED <<args, rng, ctx, returned>>

\* lines 1411-1415
FallbackNearestFielder ==
    /\ pc = "fallback"
    /\ result' = Some(fallback_phase(ctx))
    /\ pc' = "done"
    /\ trace' = Append(trace, "fallback")
    /\ UNCHANGED <<args, rng, rng_pos, ctx, returned>>

Next ==
    \/ Sanitize
    \/ CheckSix
    \/ EvaluateCatches
    \/ CheckBoundaryFour
    \/ EvaluateGroundFielding
    \/ FallbackNearestFielder

Spec == Init /\ [][Next]_vars

\* the caller seeds the randomness source again and repeats the call with the
\* same arguments (random.seed, test_game_engine.py line 549)
MaxCalls == 2

Replay ==
    /\ pc = "done"
    /\ Len(returned) + 1 < MaxCalls
    /\ returned' = Append(returned, result[1])
    /\ rng_pos' = 0
    /\ pc' = "start"
    /\ ctx' = None
    /\ result' = None
    /\ trace' = << >>
    /\ UNCHANGED <<args, rng>>

InitReplay ==
    /\ Init
    /\ args.boundary_distance \in {Fin(6500), Fin(3000)}
    /\ args.difficulty \in {"easy", "hard"}

NextReplay ==
    \/ Sanitize
    \/ CheckSix
    \/ EvaluateCatches
    \/ CheckBoundaryFour
    \/ EvaluateGroundFielding
    \/ FallbackNearestFielder
    \/ Replay

SpecReplay == InitReplay /\ [][NextReplay]_vars

-----------------------------------------------------------------------------
(* Properties of the returned result *)

Last(seq) == seq[Len(seq)]

PhaseOrder == <<"sanitize", "six", "catches", "four", "ground", "fallback">>

Outcomes == {"dot", "1", "2", "3", "4", "6", "caught", "dropped", "misfield"}

\* C1 as stated: for every returned result, runs = 6 iff outcome = "6", and
\* outcome = "6" iff is_boundary and is_aerial are both true.
C1_AsStated ==
    result # None =>
        LET r == result[1]
        IN  /\ (r.runs = 6) <=> (r.outcome = "6")
            /\ (r.outcome = "6") <=> (r.is_boundary /\ r.is_aerial)

\* C1 amended: for every returned result, runs = 6 iff outcome = "6"; a six
\* has is_boundary and is_aerial both true; and a result with both flags true
\* is a six or a four (the four of an aerial shot keeps the aerial flag).
C1_SixFlags ==
    result # None =>
        LET r == result[1]
        IN  /\ (r.runs = 6) <=> (r.outcome = "6")
            /\ (r.outcome = "6") => (r.is_boundary /\ r.is_aerial)
            /\ (r.is_boundary /\ r.is_aerial) => r.outcome \in {"4", "6"}

C1_Witness ==
    /\ pc = "done"
    /\ result[1].outcome = "6"
    /\ result[1].runs = 6

\* C2: for every returned result, runs = 4 iff outcome = "4", and
\* outcome = "4" iff is_boundary is true and the outcome is not "6".
C2_FourFlags ==
    result # None =>
        LET r == result[1]
        IN  /\ (r.runs = 4) <=> (r.outcome = "4")
            /\ (r.outcome = "4") <=> (r.is_boundary /\ r.outcome # "6")

C2_Witness ==
    /\ pc = "done"
    /\ result[1].outcome = "4"
    /\ Last(trace) = "four"

\* C3: a caught result has 0 runs, is aerial and names a fielder; a dropped
\* or misfield result names a fielder.
C3_Attribution ==
    result # None =>
        LET r == result[1]
        IN  /\ r.outcome = "caught" =>
                 (r.runs = 0 /\ r.is_aerial /\ r.fielder_involved # None)
            /\ r.outcome \in {"dropped", "misfield"} => r.fielder_involved # None

C3_Witness ==
    /\ pc = "done"
    /\ result[1].outcome = "caught"
    /\ result[1].fielder_involved # None

\* C4: a dot has 0 runs; an outcome "1", "2" or "3" has that many runs and is
\* not a boundary, on the ground-fielding path and on the fallback path.
C4_RunsMatchOutcome ==
    result # None =>
        LET r == result[1]
        IN  /\ r.outcome = "dot" => r.runs = 0
            /\ \A n \in 1..3 :
                 r.outcome = ToString(n) => (r.runs = n /\ ~r.is_boundary)

C4_Witness ==
    /\ pc = "done"
    /\ Last(trace) = "fallback"
    /\ result[1].outcome \in {"1", "2", "3"}

WellFormed(r) ==
    /\ r.outcome \in Outcomes
    /\ r.runs \in {0, 1, 2, 3, 4, 6}
    /\ DOMAIN r.end_position = {"x", "y"}
    /\ r.end_position.x \in Int
    /\ r.end_position.y \in Int

\* the step the call is about to take yields a value: the phase it stands at
\* is one of the six, and that phase, applied to the current state, gives
\* either no result or one result, drawing no more than two uniforms
StepDefined ==
    CASE pc = "start"    -> prepare(args).boundary_distance > 0
      [] pc = "six"      -> Len(six_phase(ctx)) \in {0, 1}
      [] pc = "catches"  -> LET ph == catches_phase(ctx, rng, rng_pos)
                            IN  Len(ph.result) \in {0, 1} /\ ph.draws \in 0..2
      [] pc = "four"     -> Len(four_phase(ctx)) \in {0, 1}
      [] pc = "ground"   -> LET ph == ground_phase(ctx, rng, rng_pos)
                            IN  Len(ph.result) \in {0, 1} /\ ph.draws \in 0..1
      [] pc = "fallback" -> fallback_phase(ctx).outcome \in Outcomes
      [] OTHER           -> FALSE

C6_PhaseOrder ==
    /\ trace = SubSeq(PhaseOrder, 1, Len(trace))
    /\ result # None => pc = "done"
    /\ pc = "done" => result # None
    /\ (result # None /\ result[1].outcome = "6") =>
           (Last(trace) = "six" /\ rng_pos = 0)
    /\ (result # None /\ result[1].outcome \in {"caught", "dropped"}) =>
           Last(trace) = "catches"
    /\ (result # None /\ result[1].outcome = "4") =>
           \/ Last(trace) = "catches"
           \/ Last(trace) = "four" /\ rng_pos = 0
           \/ Last(trace) = "fallback" /\ rng_pos = 0
    /\ (result # None /\ Last(trace) \in {"six", "four"}) =>
           result[1].outcome = (IF Last(trace) = "six" THEN "6" ELSE "4")

C6_Witness ==
    /\ pc = "done"
    /\ trace = SubSeq(PhaseOrder, 1, 4)
    /\ result[1].outcome = "4"
    /\ ctx.is_aerial
    /\ ctx.fielders # << >>

\* C7: the outcome is "6" exactly when, on the sanitized inputs,
\* projected_distance >= boundary_distance, the shot is aerial (max_height >
\* 1.5 m or vertical_angle > 10) and the height at the boundary is above
\* 0.5 m, whatever the field, the difficulty and the draws.
C7_SixCondition ==
    pc = "done" =>
        ((result[1].outcome = "6") <=>
            /\ ctx.projected_distance >= ctx.boundary_distance
            /\ (ctx.max_height > 150 \/ ctx.vertical_angle > 10)
            /\ get_ball_height_at_distance(ctx.boundary_distance,
                                           ctx.projected_distance,
                                           ctx.max_height,
                                           ctx.vertical_angle) > 50)

C7_Witness ==
    /\ pc = "done"
    /\ result[1].outcome = "6"
    /\ ctx.fielders # << >>
    /\ ctx.projected_distance > ctx.boundary_distance

\* the result of the same call (same arguments, same draws) with the
\* boundary distance b2
WithBoundary(b2) ==
    simulate_delivery([args EXCEPT !.boundary_distance = b2], rng)

\* the smaller boundary distance b2 keeps a six a six and a four a boundary
KeepsBoundary(b2) ==
    /\ result[1].outcome = "6" => WithBoundary(b2).outcome = "6"
    /\ result[1].outcome = "4" => WithBoundary(b2).outcome \in {"4", "6"}

\* C8 as stated: for any two finite boundary distances b2 < b, all else
\* equal, a "6" with b is a "6" with b2 and a "4" with b is a "4" or "6"
\* with b2.
C8_AsStated ==
    (pc = "done" /\ args.boundary_distance.k = "fin") =>
        \A b2 \in Boundaries :
            (b2.k = "fin" /\ b2.v < args.boundary_distance.v) => KeepsBoundary(b2)

\* C8 amended: the same for any two finite boundary distances 0 < b2 < b
\* (a boundary distance <= 0 is replaced by 70 m).
C8_PositiveBoundaries ==
    (pc = "done" /\ args.boundary_distance.k = "fin") =>
        \A b2 \in Boundaries :
            (b2.k = "fin" /\ 0 < b2.v /\ b2.v < args.boundary_distance.v)
                => KeepsBoundary(b2)

C8_Witness ==
    /\ pc = "done"
    /\ args.boundary_distance = Fin(7500)
    /\ result[1].outcome = "6"
    /\ WithBoundary(Fin(3000)).outcome = "6"

HasCatchChance ==
    \E i \in 1..Len(ctx.fielders) :
        /\ catch_eligible(ctx.fielders[i], ctx.landing_x, ctx.landing_y,
                          ctx.projected_distance)
        /\ analyze_catch_difficulty(ctx.fielders[i], ctx.traj, 0, 0, ctx.landing_x,
                                    ctx.landing_y, ctx.projected_distance,
                                    ctx.max_height).can_catch

\* C11: catch evaluation is gated on height, not on the aerial flag: a shot
\* that is not a six, has max_height >= CATCH_HEIGHT_MIN and has an eligible
\* fielder with a reachable intercept is decided by the catch phase (caught,
\* dropped, or dropped for four), whether or not it is aerial.
C11_HeightGate ==
    (/\ pc = "done"
     /\ result[1].outcome # "6"
     /\ ctx.max_height >= CATCH_HEIGHT_MIN
     /\ HasCatchChance) => Last(trace) = "catches"

\* C12: a result with outcome "4" whose projected_distance is below
\* boundary_distance occurs if and only if the sanitized fielder list is empty,
\* and it names no fielder; with a non-empty sanitized field and
\* projected_distance < boundary_distance the outcome is never "4" or "6".
C12_DegenerateFour ==
    (pc = "done" /\ ctx.projected_distance < ctx.boundary_distance) =>
        /\ (result[1].outcome = "4") <=> (ctx.fielders = << >>)
        /\ result[1].outcome = "4" => result[1].fielder_involved = None
        /\ ctx.fielders # << >> => result[1].outcome \notin {"4", "6"}

C12_Witness ==
    /\ pc = "done"
    /\ ctx.projected_distance < ctx.boundary_distance
    /\ args.field_config = MalformedField
    /\ ctx.fielders = << >>
    /\ result[1].outcome = "4"
    /\ result[1].fielder_involved = None
    /\ Last(trace) = "fallback"

\* C13: a shot that is not aerial (max_height <= 1.5 m and vertical_angle <=
\* 10) and whose projected_distance >= boundary_distance always results in
\* outcome "4" with 4 runs and no fielder named, whatever the field, the
\* difficulty and the draws.
C13_FlatFour ==
    (/\ pc = "done"
     /\ ctx.max_height <= 150
     /\ ctx.vertical_angle <= 10
     /\ ctx.projected_distance >= ctx.boundary_distance) =>
        /\ result[1].outcome = "4"
        /\ result[1].runs = 4
        /\ result[1].fielder_involved = None

C13_Witness ==
    /\ pc = "done"
    /\ ctx.max_height <= 150
    /\ ctx.vertical_angle <= 10
    /\ ctx.projected_distance >= ctx.boundary_distance
    /\ HasCatchChance
    /\ result[1].outcome = "4"

-----------------------------------------------------------------------------
(* The angle functions on their own: every whole angle within MaxAngle
   degrees of zero, either value of the aerial flag. args holds the inputs,
   result what the function returned, pc which function was applied. *)

MaxAngle == 800

InitAngle ==
    /\ args \in [angle : (0 - MaxAngle)..MaxAngle, is_aerial : BOOLEAN]
    /\ rng = << >>
    /\ rng_pos = 0
    /\ pc = "start"
    /\ ctx = None
    /\ result = None
    /\ trace = << >>
    /\ returned = << >>

\* _normalize_angle(angle)
NormalizeAngle ==
    /\ pc = "start"
    /\ result' = Some(normalize_angle(args.angle))
    /\ pc' = "normalized"
    /\ UNCHANGED <<args, rng, rng_pos, ctx, trace, returned>>

\* the horizontal angle returned by _validate_and_sanitize_inputs
SanitizeAngle ==
    /\ pc = "start"
    /\ result' = Some(validate_and_sanitize_inputs(
                          Fin(100), Fin(args.angle), Fin(10), Fin(0), Fin(-3000),
                          Fin(3000), Fin(200), Fin(6500)).horizontal_angle)
    /\ pc' = "sanitized"
    /\ UNCHANGED <<args, rng, rng_pos, ctx, trace, returned>>

\* _get_shot_direction_name(horizontal_angle, is_aerial)
ClassifyShot ==
    /\ pc = "start"
    /\ result' = Some(get_shot_direction_name(args.angle, args.is_aerial))
    /\ pc' = "classified"
    /\ UNCHANGED <<args, rng, rng_pos, ctx, trace, returned>>

NextAngle ==
    \/ NormalizeAngle
    \/ SanitizeAngle
    \/ ClassifyShot

SpecAngle == InitAngle /\ [][NextAngle]_vars

\* the names of the classifier's table
ShotNames ==
    {"driven straight", "lofted straight",
     "driven through cover", "lofted over cover",
     "flicked through midwicket", "lofted over midwicket",
     "cut", "cut in the air", "pulled", "hooked",
     "square cut", "upper cut", "swept", "swept in the air",
     "late cut", "edged", "glanced fine", "flicked fine",
     "edged behind", "edged in the air"}

MaxTurns == 3

-----------------------------------------------------------------------------
(* The sanitizer on its own: every combination of raw values, each argument
   drawn from values that are not finite, below, inside, on the edge of and
   above its range. *)

RawValues(arg) ==
    CASE arg = "exit_speed" -> {NaN, Fin(-5), Fin(0), Fin(105), Fin(200), Fin(250)}
      [] arg = "horizontal_angle" -> {NotANumber, Fin(-180), Fin(30), Fin(180), Fin(540)}
      [] arg = "vertical_angle" -> {PosInf, Fin(-5), Fin(35), Fin(90), Fin(95)}
      [] arg = "landing_x" -> {NaN, Fin(-1500), Fin(0)}
      [] arg = "landing_y" -> {NegInf, Fin(-7500), Fin(20000)}
      [] arg = "projected_distance" -> {NotANumber, Fin(-100), Fin(7600), Fin(15000), Fin(20000)}
      [] arg = "max_height" -> {NegInf, Fin(-100), Fin(0), Fin(2500), Fin(6000)}
      [] arg = "boundary_distance" -> {NaN, PosInf, Fin(-100), Fin(0), Fin(6500)}

SanitizerArgs == NumericArgs \cup {"boundary_distance"}

InitSanitize ==
    /\ args \in [exit_speed : RawValues("exit_speed"),
                 horizontal_angle : RawValues("horizontal_angle"),
                 vertical_angle : RawValues("vertical_angle"),
                 landing_x : RawValues("landing_x"),
                 landing_y : RawValues("landing_y"),
                 projected_distance : RawValues("projected_distance"),
                 max_height : RawValues("max_height"),
                 boundary_distance : RawValues("boundary_distance")]
    /\ rng = << >>
    /\ rng_pos = 0
    /\ pc = "start"
    /\ ctx = None
    /\ result = None
    /\ trace = << >>
    /\ returned = << >>

\* _validate_and_sanitize_inputs(...)
ValidateInputs ==
    /\ pc = "start"
    /\ result' = Some(validate_and_sanitize_inputs(
                          args.exit_speed, args.horizontal_angle,
                          args.vertical_angle, args.landing_x, args.landing_y,
                          args.projected_distance, args.max_height,
                          args.boundary_distance))
    /\ pc' = "validated"
    /\ UNCHANGED <<args, rng, rng_pos, ctx, trace, returned>>

SpecSanitize == InitSanitize /\ [][ValidateInputs]_vars

\* the closed range the sanitizer keeps an argument in, <<low, high>>
SanitizedRange(arg) ==
    CASE arg = "exit_speed" -> <<0, 200>>
      [] arg = "vertical_angle" -> <<0, 90>>
      [] arg = "projected_distance" -> <<0, 15000>>
      [] arg = "max_height" -> <<0, 5000>>

Ranged == {"exit_speed", "vertical_angle", "projected_distance", "max_height"}

\* C16: after sanitization exit_speed is in [0, 200], vertical_angle in
\* [0, 90], projected_distance in [0, 150 m], max_height in [0, 50 m],
\* landing_x and landing_y are finite, boundary_distance is finite and > 0
\* (70 m when the raw value is non-finite or <= 0); an in-range finite raw
\* value is returned unchanged; a non-finite raw value becomes 0 (70 m for the
\* boundary).
C16_SanitizedRanges ==
    pc = "validated" =>
        LET s == result[1]
        IN  /\ \A arg \in Ranged :
                 /\ SanitizedRange(arg)[1] <= s[arg]
                 /\ s[arg] <= SanitizedRange(arg)[2]
                 /\ (/\ args[arg].k = "fin"
                     /\ SanitizedRange(arg)[1] <= args[arg].v
                     /\ args[arg].v <= SanitizedRange(arg)[2]) => s[arg] = args[arg].v
            /\ \A arg \in {"landing_x", "landing_y"} :
                 /\ s[arg] \in Int
                 /\ args[arg].k = "fin" => s[arg] = args[arg].v
            /\ s.boundary_distance \in Int
            /\ s.boundary_distance > 0
            /\ (args.boundary_distance.k # "fin" \/ args.boundary_distance.v <= 0)
                   => s.boundary_distance = 7000
            /\ (args.boundary_distance.k = "fin" /\ args.boundary_distance.v > 0)
                   => s.boundary_distance = args.boundary_distance.v
            /\ \A arg \in NumericArgs : args[arg].k # "fin" => s[arg] = 0

C16_Witness ==
    /\ pc = "validated"
    /\ args.exit_speed = Fin(250)
    /\ result[1].exit_speed = 200
    /\ args.vertical_angle = PosInf
    /\ result[1].vertical_angle = 0
    /\ args.max_height = Fin(2500)
    /\ result[1].max_height = 2500
    /\ args.boundary_distance = Fin(0)
    /\ result[1].boundary_distance = 7000

\* the sanitizer returned a value for arg that differs from the raw value
Adjusted(arg) == args[arg].k # "fin" \/ args[arg].v # result[1][arg]

\* the warnings list holds a warning for arg
Warned(arg) == \E i \in 1..Len(result[1].warnings) : result[1].warnings[i] = arg

\* C17 as stated: whenever a value returned by the sanitizer differs from the
\* raw value, the warnings list contains a warning for that field; and when no
\* value is changed the warnings list is empty.
C17_AsStated ==
    pc = "validated" =>
        /\ \A arg \in SanitizerArgs : Adjusted(arg) => Warned(arg)
        /\ (\A arg \in SanitizerArgs : ~Adjusted(arg)) => result[1].warnings = << >>

\* C17 amended: for every field but horizontal_angle there is a warning for
\* the field exactly when the returned value differs from the raw value;
\* horizontal_angle has a warning exactly when the raw value is not finite (a
\* finite angle is wrapped into range without a warning); and when no value
\* is changed the warnings list is empty.
C17_AllButAngleWrap ==
    pc = "validated" =>
        /\ \A arg \in SanitizerArgs \ {"horizontal_angle"} :
               Adjusted(arg) <=> Warned(arg)
        /\ Warned("horizontal_angle") <=> args.horizontal_angle.k # "fin"
        /\ (\A arg \in SanitizerArgs : ~Adjusted(arg)) => result[1].warnings = << >>

C17_Witness ==
    /\ pc = "validated"
    /\ args.horizontal_angle = Fin(540)
    /\ result[1].horizontal_angle = -180
    /\ ~Warned("horizontal_angle")
    /\ args.max_height = Fin(6000)
    /\ Warned("max_height")

-----------------------------------------------------------------------------
(* The catch difficulty on its own: two lateral distances l1 and l2 for the
   same intercept (time in ms, lengths in cm, ball speed in 1/100 km/h). *)

LateralDistances == {0, 100, 150, 151, 250, 400, 401, 500, 650, 800, 1200, 2000}

InitDifficulty ==
    /\ args \in [time_to_intercept : {300, 600, 1200, 2500},
                 l1 : LateralDistances,
                 l2 : LateralDistances,
                 height : {30, 120, 350},
                 had_optimal : BOOLEAN,
                 ball_speed_kmh : {5000, 9000, 13000}]
    /\ rng = << >>
    /\ rng_pos = 0
    /\ pc = "start"
    /\ ctx = None
    /\ result = None
    /\ trace = << >>
    /\ returned = << >>

\* the difficulty of _analyze_catch_difficulty for each lateral distance
ScoreCatches ==
    /\ pc = "start"
    /\ result' = <<catch_difficulty(args.time_to_intercept, args.l1, args.height,
                                    args.had_optimal, args.ball_speed_kmh),
                   catch_difficulty(args.time_to_intercept, args.l2, args.height,
                                    args.had_optimal, args.ball_speed_kmh)>>
    /\ pc' = "scored"
    /\ UNCHANGED <<args, rng, rng_pos, ctx, trace, returned>>

SpecDifficulty == InitDifficulty /\ [][ScoreCatches]_vars

\* how far the fielder can move before the intercept (lines 775-776)
MovementPossible ==
    (Max(0, args.time_to_intercept - FIELDER_REACTION_TIME) * FIELDER_RUN_SPEED)
        \div 1000 + FIELDER_DIVE_RANGE

\* C18: catch difficulty is monotone in the required movement: for the same
\* time to intercept, height, optimal-height flag and ball speed, and lateral
\* distances l1 <= l2 <= movement_possible, the difficulty for l2 is not lower
\* than the difficulty for l1, also across the thresholds at 1.5 m and 4.0 m.
C18_MonotoneMovement ==
    (pc = "scored" /\ args.l1 <= args.l2 /\ args.l2 <= MovementPossible)
        => result[1] <= result[2]

C18_Witness ==
    /\ pc = "scored"
    /\ args.l1 = 400
    /\ args.l2 = 401
    /\ args.l2 <= MovementPossible
    /\ result[1] < result[2]

-----------------------------------------------------------------------------
(* The conversion of fielding time to runs on its own: fielding times in
   steps of 50 ms, with and without the misfield penalty. *)

MaxTicks == 260

InitRuns ==
    /\ args \in [fielding_time : {50 * n : n \in 0..MaxTicks}, is_misfield : BOOLEAN]
    /\ rng = << >>
    /\ rng_pos = 0
    /\ pc = "start"
    /\ ctx = None
    /\ result = None
    /\ trace = << >>
    /\ returned = << >>

\* _calculate_runs_from_fielding_time(fielding_time, is_misfield)
CalculateRuns ==
    /\ pc = "start"
    /\ result' = Some(calculate_runs_from_fielding_time(args.fielding_time,
                                                        args.is_misfield))
    /\ pc' = "counted"
    /\ UNCHANGED <<args, rng, rng_pos, ctx, trace, returned>>

SpecRuns == InitRuns /\ [][CalculateRuns]_vars

\* the fielding time after the penalty, in ms
EffectiveTime ==
    IF args.is_misfield THEN args.fielding_time + 2500 ELSE args.fielding_time

\* C19: for every effective fielding time t the runs are 0 when t < 3.5 s,
\* 1 when 3.5 <= t < 6.0, 2 when 6.0 <= t < 8.5 and 3 when t >= 8.5; never
\* above 3 and non-decreasing in t.
C19_TimeToRuns ==
    pc = "counted" =>
        /\ result[1] = (IF EffectiveTime < 3500 THEN 0
                        ELSE IF EffectiveTime < 6000 THEN 1
                        ELSE IF EffectiveTime < 8500 THEN 2
                        ELSE 3)
        /\ result[1] <= 3
        /\ result[1] <= calculate_runs_from_fielding_time(args.fielding_time + 50,
                                                          args.is_misfield)

C19_Witness ==
    /\ pc = "counted"
    /\ args.is_misfield
    /\ args.fielding_time = 6000
    /\ result[1] = 3

-----------------------------------------------------------------------------
(* The ground-fielding roll on its own: every uniform draw in steps of
   1/1000, every difficulty name, known or not. *)

InitRoll ==
    /\ args \in {Call(PushedSingle, Fin(6500), StandardField, d) :
                    d \in {"easy", "medium", "hard", "expert", "", "Medium"}}
    /\ rng \in {<<u>> : u \in 0..999}
    /\ rng_pos = 0
    /\ pc = "start"
    /\ ctx = None
    /\ result = None
    /\ trace = << >>
    /\ returned = << >>

\* simulate_delivery up to the difficulty settings (lines 1351-1366), then
\* _roll_ground_fielding_outcome(probs)
RollGroundFielding ==
    /\ pc = "start"
    /\ ctx' = prepare(args)
    /\ result' = Some(roll_ground_fielding_outcome(prepare(args).probs,
                                                   next_uniform(rng, rng_pos)))
    /\ rng_pos' = rng_pos + 1
    /\ pc' = "rolled"
    /\ UNCHANGED <<args, rng, trace, returned>>

SpecRoll == InitRoll /\ [][RollGroundFielding]_vars

\* the triple (stopped, fumbled, escaped) of a difficulty, in 1/1000; a name
\* that is not one of the three has the triple of medium
Triple(name) ==
    CASE name = "easy" -> <<700, 200, 100>>
      [] name = "hard" -> <<950, 40, 10>>
      [] OTHER -> <<850, 100, 50>>

\* C20: the ground-fielding roll is one uniform draw u mapped by the triple
\* (s, f, e) of the effective difficulty: stopped when u < s, fumbled when
\* s <= u < s + f, escaped otherwise; the triples are those of easy, medium
\* and hard, each summing to 1; any other difficulty uses the medium triple
\* and the medium catch modifier.
C20_GroundRoll ==
    pc = "rolled" =>
        LET t == Triple(args.difficulty)
            u == rng[1]
        IN  /\ rng_pos = 1
            /\ t[1] + t[2] + t[3] = 1000
            /\ ctx.probs.stopped = t[1]
            /\ ctx.probs.misfield_no_extra = t[2]
            /\ ctx.probs.misfield_extra = t[3]
            /\ result[1] = (IF u < t[1] THEN "stopped"
                            ELSE IF u < t[1] + t[2] THEN "misfield_no_extra"
                            ELSE "misfield_extra")
            /\ args.difficulty \notin {"easy", "medium", "hard"} =>
                   /\ ctx.difficulty = "medium"
                   /\ \A d \in {0, 2500, 5000, 10000} :
                          catch_probability(d, ctx.difficulty)
                              = catch_probability(d, "medium")

C20_Witness ==
    /\ pc = "rolled"
    /\ args.difficulty = "expert"
    /\ rng[1] = 850
    /\ result[1] = "misfield_no_extra"

-----------------------------------------------------------------------------
(* Ground fielding as reported, C21 and C29 *)

\* the runs that a time budget t (ms) allows
RunsFor(t) ==
    IF t < 3500 THEN 0 ELSE IF t < 6000 THEN 1 ELSE IF t < 8500 THEN 2 ELSE 3

\* the candidate that ground fielding ranks first, when the call got there
FirstGroundChance ==
    sort_by(ground_chances(ctx.fielders, 1, ctx.projected_distance, ctx.landing_x,
                           ctx.landing_y, ctx.exit_speed), "lat_dist")[1]

\* the time budget of the first-ranked ground candidate
GroundBudget ==
    calculate_fielding_time(ctx.exit_speed, FirstGroundChance.intercept_dist,
                            FirstGroundChance.lat_dist,
                            FirstGroundChance.fielder.x, FirstGroundChance.fielder.y)

\* the kind of ground-fielding roll that the first draw of the call gives
GroundRoll ==
    IF rng[1] < ctx.probs.stopped THEN "stopped"
    ELSE IF rng[1] < ctx.probs.stopped + ctx.probs.misfield_no_extra THEN "fumbled"
    ELSE "escaped"

GroundFielded == pc = "done" /\ Last(trace) = "ground"

\* C21: a clean stop yields "dot" when the budget gives 0 runs and otherwise
\* "1"/"2"/"3", end position at the fielder; a fumble yields "misfield" with
\* max(1, runs for the budget plus 1.0 s), end position at the fielder; an
\* escape yields "misfield" with the runs for the budget plus 2.5 s and the
\* end position at the landing point.
C21_GroundReporting ==
    GroundFielded =>
        LET f == FirstGroundChance.fielder
            r == result[1]
            at_fielder == [x |-> f.x, y |-> f.y]
            at_landing == [x |-> ctx.landing_x, y |-> ctx.landing_y]
        IN  CASE GroundRoll = "stopped" ->
                    /\ r.runs = RunsFor(GroundBudget)
                    /\ r.outcome = (IF r.runs = 0 THEN "dot" ELSE ToString(r.runs))
                    /\ r.outcome \in {"dot", "1", "2", "3"}
                    /\ r.end_position = at_fielder
              [] GroundRoll = "fumbled" ->
                    /\ r.outcome = "misfield"
                    /\ r.runs = Max(1, RunsFor(GroundBudget + 1000))
                    /\ r.end_position = at_fielder
              [] GroundRoll = "escaped" ->
                    /\ r.outcome = "misfield"
                    /\ r.runs = RunsFor(GroundBudget + 2500)
                    /\ r.end_position = at_landing

C21_Witness ==
    /\ GroundFielded
    /\ GroundRoll = "escaped"
    /\ result[1].outcome = "misfield"
    /\ result[1].end_position = [x |-> ctx.landing_x, y |-> ctx.landing_y]
    /\ result[1].end_position # [x |-> FirstGroundChance.fielder.x,
                                 y |-> FirstGroundChance.fielder.y]

\* C29: every "misfield" result has 1 <= runs <= 3, and an escape never
\* awards fewer runs than a fumble by the same fielder on the same shot.
C29_AsStated ==
    (pc = "done" /\ result[1].outcome = "misfield") =>
        /\ 1 <= result[1].runs
        /\ result[1].runs <= 3
        /\ GroundFielded =>
               calculate_runs_from_fielding_time(GroundBudget, TRUE)
                   >= Max(1, calculate_runs_from_fielding_time(
                                 GroundBudget + FUMBLE_TIME_PENALTY, FALSE))

-----------------------------------------------------------------------------
(* The catch phase as reported, C22 *)

\* the candidate that the catch phase ranks first, when the call got there
FirstCatchChance ==
    LET chances == catch_chances(ctx.fielders, 1, ctx.traj, ctx.projected_distance,
                                 ctx.max_height, ctx.landing_x, ctx.landing_y)
    IN  IF chances = << >> THEN [fielder |-> None, analysis |-> None]
        ELSE sort_by(chances, "intercept_dist")[1]

CatchRolled == pc = "done" /\ Last(trace) = "catches"

\* the first draw of the call is not below the catch probability of the
\* first-ranked candidate
FirstChanceDropped ==
    /\ CatchRolled
    /\ rng[1] >= catch_probability(FirstCatchChance.analysis.difficulty,
                                   ctx.difficulty)

\* C22: when the first-ranked catch candidate drops the ball the shot ends
\* with that drop: a four on the boundary attributed to that fielder when
\* projected_distance >= boundary_distance, and otherwise "dropped" at the
\* landing point with 1 run inside 15 m, 1 or 2 runs from 15 m to 30 m and
\* 2 or 3 runs from 30 m on.
C22_DropEndsTheShot ==
    FirstChanceDropped =>
        LET r == result[1]
            f == FirstCatchChance.fielder
        IN  /\ r.fielder_involved = Some(f.name)
            /\ r.fielder_position = Some([x |-> f.x, y |-> f.y])
            /\ IF ctx.projected_distance >= ctx.boundary_distance
               THEN /\ r.outcome = "4"
                    /\ r.runs = 4
                    /\ Abs(distance(r.end_position.x, r.end_position.y, 0, 0)
                           - ctx.boundary_distance) <= 2
               ELSE /\ r.outcome = "dropped"
                    /\ r.end_position = [x |-> ctx.landing_x, y |-> ctx.landing_y]
                    /\ 1 <= r.runs
                    /\ r.runs <= 3
                    /\ ctx.projected_distance < 1500 => r.runs = 1
                    /\ (1500 <= ctx.projected_distance
                        /\ ctx.projected_distance < 3000) => r.runs \in {1, 2}
                    /\ ctx.projected_distance >= 3000 => r.runs \in {2, 3}

C22_Witness ==
    /\ FirstChanceDropped
    /\ ctx.projected_distance >= ctx.boundary_distance
    /\ result[1].outcome = "4"
    /\ result[1].fielder_involved # None

-----------------------------------------------------------------------------
(* The catch roll on its own: difficulty scores in steps of 0.05, every
   uniform draw in steps of 1/1000, the three difficulty levels. *)

InitCatchRoll ==
    /\ args \in [difficulty_score : {500 * n : n \in 0..20},
                 difficulty : {"easy", "medium", "hard"}]
    /\ rng \in {<<u>> : u \in 0..999}
    /\ rng_pos = 0
    /\ pc = "start"
    /\ ctx = None
    /\ result = None
    /\ trace = << >>
    /\ returned = << >>

\* _roll_catch_outcome(analysis, difficulty)
RollCatchOutcome ==
    /\ pc = "start"
    /\ result' = Some(roll_catch_outcome([difficulty |-> args.difficulty_score],
                                         args.difficulty,
                                         next_uniform(rng, rng_pos)))
    /\ rng_pos' = rng_pos + 1
    /\ pc' = "rolled"
    /\ UNCHANGED <<args, rng, ctx, trace, returned>>

SpecCatchRoll == InitCatchRoll /\ [][RollCatchOutcome]_vars

\* the modifier of a difficulty level, in 1/100
Modifier(name) ==
    CASE name = "easy" -> 85 [] name = "medium" -> 100 [] name = "hard" -> 115

\* (0.98 - 0.52 * D) * m in 1/100000000, for D in 1/10000 and m in 1/100
ScaledProbability(D, m) == (980000 - 52 * D) * m

\* C23: the catch roll is one uniform draw u against p = min(0.99,
\* (0.98 - 0.52 D) * m), m = 0.85 / 1.00 / 1.15 for easy / medium / hard:
\* "caught" when u < p and "dropped" otherwise (to the 1/1000 resolution of
\* the draw); for the same D the probability on hard is >= that on medium,
\* which is >= that on easy, and it never exceeds 0.99.
C23_CatchRoll ==
    pc = "rolled" =>
        LET u == rng[1]
            D == args.difficulty_score
            scaled == ScaledProbability(D, Modifier(args.difficulty))
        IN  /\ rng_pos = 1
            /\ result[1] \in {"caught", "dropped"}
            /\ result[1] = "caught" => (u < 990 /\ u * 100000 < scaled)
            /\ result[1] = "dropped" => (u >= 990 \/ (u + 1) * 100000 > scaled)
            /\ catch_probability(D, "hard") >= catch_probability(D, "medium")
            /\ catch_probability(D, "medium") >= catch_probability(D, "easy")
            /\ catch_probability(D, args.difficulty) <= 990

C23_Witness ==
    /\ pc = "rolled"
    /\ args.difficulty = "hard"
    /\ args.difficulty_score = 0
    /\ rng[1] = 990
    /\ result[1] = "dropped"

-----------------------------------------------------------------------------
(* The catch analyses of a call, C24 *)

\* every catch analysis of the call with can_catch = true: the candidates of
\* the catch phase
CatchAnalyses ==
    LET chances == catch_chances(ctx.fielders, 1, ctx.traj, ctx.projected_distance,
                                 ctx.max_height, ctx.landing_x, ctx.landing_y)
    IN  {chances[i].analysis : i \in DOMAIN chances}

\* C24: whenever a catch analysis has can_catch = true its difficulty D is
\* within [0, 1] (the movement it requires is within the movement possible,
\* so the movement score of a running catch is at most 1), and its catch_type
\* is "regulation" exactly when D < 0.25, "hard" exactly when
\* 0.25 <= D < 0.6 and "spectacular" exactly when D >= 0.6.
C24_DifficultyAndType ==
    CatchRolled =>
        /\ result[1].catch_analysis[1] \in CatchAnalyses
        /\ \A a \in CatchAnalyses :
              /\ a.can_catch
              /\ 0 <= a.difficulty
              /\ a.difficulty <= 10000
              /\ a.movement_required <= a.movement_possible
              /\ a.catch_type = Some("regulation") <=> a.difficulty < 2500
              /\ a.catch_type = Some("hard")
                     <=> (2500 <= a.difficulty /\ a.difficulty < 6000)
              /\ a.catch_type = Some("spectacular") <=> a.difficulty >= 6000

C24_Witness ==
    /\ CatchRolled
    /\ \E a \in CatchAnalyses :
          /\ a.movement_required > FIELDER_STATIC_RANGE + FIELDER_DIVE_RANGE
          /\ a.difficulty >= 2500
          /\ a.catch_type = Some("hard")

-----------------------------------------------------------------------------
(* The intercept search, C25 *)

\* the catch phase has just looked at the fielders of the call
CatchPhaseEntered ==
    /\ trace # << >>
    /\ Last(trace) = "catches"
    /\ ctx.is_aerial
    /\ ctx.max_height >= CATCH_HEIGHT_MIN

EligibleFielders ==
    {ctx.fielders[i] : i \in {j \in DOMAIN ctx.fielders :
        catch_eligible(ctx.fielders[j], ctx.landing_x, ctx.landing_y,
                       ctx.projected_distance)}}

\* the values fixed during the search for fielder f
SearchParams(f) ==
    intercept_params(f, ctx.traj, ctx.landing_x, ctx.landing_y,
                     ctx.projected_distance, ctx.max_height)

\* the samples of the flight at 0.05 s steps from 0.1 s up to the time limit
SamplesUpTo(f, limit) ==
    {sample_at(SearchParams(f), t) :
        t \in {u \in {100 + 50 * k : k \in 0..(Max(0, limit) \div 50)} : u < limit}}

\* what the search returns for fielder f is what the rule of selection gives
\* over the samples up to the limit
SearchFollowsRule(f, limit) ==
    LET catchable == {s \in SamplesUpTo(f, limit) : s.catchable}
        optimal == {s \in catchable : s.is_optimal}
        ic == find_catchable_intercept(f, ctx.traj, ctx.landing_x, ctx.landing_y,
                                       ctx.projected_distance, ctx.max_height)
        returned_from(set) == {s \in set : /\ s.t = ic.time
                                           /\ s.z = ic.height
                                           /\ s.lateral_dist = ic.lateral_distance}
    IN  /\ ic.time = Inf <=> catchable = {}
        /\ optimal # {} =>
              /\ ic.had_optimal
              /\ \E s \in returned_from(optimal) :
                    \A o \in optimal : o.margin <= s.margin
        /\ (optimal = {} /\ catchable # {}) =>
              /\ ~ic.had_optimal
              /\ \E s \in returned_from(catchable) :
                    \A c \in catchable : s.height_dist <= c.height_dist
        /\ ic.time # Inf =>
              /\ 20 <= ic.height
              /\ ic.height <= 400
              /\ ic.lateral_distance
                     <= (Max(0, ic.time - 200) * 700) \div 1000 + 250

\* C25 as stated: the samples run up to the time of flight of the trajectory.
C25_AsStated ==
    CatchPhaseEntered =>
        \A f \in EligibleFielders : SearchFollowsRule(f, ctx.traj.time_of_flight)

\* C25: the intercept search samples the flight at 0.05 s steps from 0.1 s up
\* to the time the ball needs for the projected distance of the call
\* (projected_distance / horizontal_speed); it returns "unreachable" exactly
\* when no sample is catchable, otherwise the optimal-band sample with the
\* largest movement margin when there is one (had_optimal = true) and else
\* the catchable sample whose height is closest to the band; every returned
\* sample has 0.2 <= z <= 4.0 and lateral distance
\* <= max(0, t - 0.20) * 7.0 + 2.5.
C25_SearchOverActualFlight ==
    CatchPhaseEntered =>
        \A f \in EligibleFielders :
            SearchFollowsRule(f, SearchParams(f).flight_time)

C25_Witness ==
    /\ CatchPhaseEntered
    /\ \E f \in EligibleFielders :
          LET ic == find_catchable_intercept(f, ctx.traj, ctx.landing_x,
                                             ctx.landing_y, ctx.projected_distance,
                                             ctx.max_height)
          IN  /\ ic.time # Inf
              /\ ic.had_optimal
              /\ ic.time > ctx.traj.time_of_flight
    /\ \E f \in EligibleFielders :
          find_catchable_intercept(f, ctx.traj, ctx.landing_x, ctx.landing_y,
                                   ctx.projected_distance, ctx.max_height).time = Inf

-----------------------------------------------------------------------------
(* Eligibility of close fielders, C26 *)

\* the projection of the position of fielder f onto the landing vector, times
\* the length of that vector
Projection(f) == f.x * ctx.landing_x + f.y * ctx.landing_y

\* f is less than 10 m from the batter and its projection onto the shot
\* direction lies in (-5, 0]
CloseAndRearward(f) ==
    /\ distance(f.x, f.y, 0, 0) < 1000
    /\ Projection(f) <= 0
    /\ Projection(f) > -500 * distance(ctx.landing_x, ctx.landing_y, 0, 0)

\* C26: a fielder less than 10 m from the batter whose projection onto the
\* shot direction lies in (-5, 0] is accepted as eligible for a catch (and so
\* can be the fielder of a caught or dropped result), while a fielder 10 m or
\* more away is eligible only when the projection is positive.
C26_RearwardEdges ==
    (ctx # None /\ distance(ctx.landing_x, ctx.landing_y, 0, 0) >= MIN_SHOT_LENGTH) =>
        \A i \in DOMAIN ctx.fielders :
            LET f == ctx.fielders[i]
                eligible == catch_eligible(f, ctx.landing_x, ctx.landing_y,
                                           ctx.projected_distance)
            IN  /\ (/\ CloseAndRearward(f)
                    /\ distance(f.x, f.y, 0, 0)
                           <= ctx.projected_distance + CATCH_EXTENDED_RANGE)
                       => eligible
                /\ (distance(f.x, f.y, 0, 0) >= 1000 /\ eligible)
                       => Projection(f) > 0

-----------------------------------------------------------------------------
(* The throw to the stumps, C27 *)

\* C27: the throw distance of every fielder position f is the distance to the
\* nearer of the stumps at (0, 0) and at (0, +20.12), floored at 0.1 m:
\* max(0.1, min(|f|, |f - (0, 20.12)|)).
C27_NearerStumps ==
    ctx # None =>
        \A i \in DOMAIN ctx.fielders :
            LET f == ctx.fielders[i]
            IN  get_throw_distance(f.x, f.y)
                    = Max(10, Min(distance(f.x, f.y, 0, 0),
                                  distance(f.x, f.y, 0, 2012)))

-----------------------------------------------------------------------------
(* One attempt per phase and the draws of a call, C28 *)

\* the index of the first-ranked entry of a list of candidates under key k:
\* the smallest key, the earlier entry on a tie
FirstRanked(chances, k) ==
    CHOOSE i \in DOMAIN chances :
        \A j \in DOMAIN chances :
            \/ chances[i][k] < chances[j][k]
            \/ (chances[i][k] = chances[j][k] /\ i <= j)

\* the result names fielder f
Attributed(f) ==
    /\ result[1].fielder_involved = Some(f.name)
    /\ result[1].fielder_position = Some([x |-> f.x, y |-> f.y])

\* C28: in one call at most one fielder attempts a catch and at most one
\* attempts ground fielding: the roll of the first-ranked candidate (smallest
\* intercept distance for catches, smallest lateral distance for ground
\* fielding, ties in field-list order) ends its phase and the result names
\* that candidate.  A call consumes no draw on the six, four and fallback
\* paths, exactly one on a caught or ground-fielded result and at most two on
\* a dropped result.
C28_OneAttemptPerPhase ==
    pc = "done" =>
        CASE Last(trace) \in {"six", "four", "fallback"} -> rng_pos = 0
          [] Last(trace) = "catches" ->
                LET chances == catch_chances(ctx.fielders, 1, ctx.traj,
                                             ctx.projected_distance, ctx.max_height,
                                             ctx.landing_x, ctx.landing_y)
                    first == chances[FirstRanked(chances, "intercept_dist")]
                IN  /\ Attributed(first.fielder)
                    /\ result[1].catch_analysis = Some(first.analysis)
                    /\ result[1].outcome = "caught" => rng_pos = 1
                    /\ result[1].outcome # "caught" => rng_pos \in {1, 2}
          [] Last(trace) = "ground" ->
                LET chances == ground_chances(ctx.fielders, 1, ctx.projected_distance,
                                              ctx.landing_x, ctx.landing_y,
                                              ctx.exit_speed)
                    first == chances[FirstRanked(chances, "lat_dist")]
                IN  /\ Attributed(first.fielder)
                    /\ rng_pos = 1

\* a dropped catch that took two draws, with more than one candidate
C28_Witness ==
    /\ pc = "done"
    /\ Last(trace) = "catches"
    /\ result[1].outcome = "dropped"
    /\ rng_pos = 2
    /\ Cardinality(CatchAnalyses) > 1

-----------------------------------------------------------------------------
(* A shot that lands exactly on the boundary, C30 *)

OnTheBoundary == ctx # None /\ ctx.projected_distance = ctx.boundary_distance

\* C30: a shot whose sanitized projected_distance equals boundary_distance is
\* never a six, whatever its height and angle, because the height model
\* returns 0 at the projected distance; outcome "6" implies
\* projected_distance > boundary_distance, and a shot landing exactly on the
\* boundary goes on to the catch and four checks.
C30_NoSixOnTheBoundary ==
    /\ OnTheBoundary =>
          get_ball_height_at_distance(ctx.boundary_distance, ctx.projected_distance,
                                      ctx.max_height, ctx.vertical_angle) = 0
    /\ pc = "done" =>
          /\ result[1].outcome = "6" => ctx.projected_distance > ctx.boundary_distance
          /\ OnTheBoundary =>
                /\ result[1].outcome # "6"
                /\ Len(trace) >= 3
                /\ trace[3] = "catches"
                /\ Last(trace) \in {"catches", "four"}

C30_Witness ==
    /\ pc = "done"
    /\ OnTheBoundary
    /\ ctx.is_aerial
    /\ ctx.max_height > SIX_HEIGHT_AT_BOUNDARY
    /\ Last(trace) = "four"
    /\ result[1].outcome = "4"

====
